---- MODULE Spec2Model ----
(***************************************************************************)
(* Real-time data client of the LDR monitor frontend:                      *)
(*   WebSocketService (shared/js/websocket-service.js), the reconnecting   *)
(*   event feed, and APIService (shared/js/api-service.js), the cached     *)
(*   REST client, with the configuration of shared/js/config.js.           *)
(***************************************************************************)
EXTENDS Integers, Sequences, FiniteSets, TLC

(***************************************************************************)
(* JavaScript numbers, as far as the services use them: exact rationals    *)
(* n/d in lowest terms, NaN, and the value undefined of a missing          *)
(* property.                                                               *)
(***************************************************************************)
RECURSIVE GCD(_, _)
GCD(a, b) ==
    IF b = 0 THEN a ELSE GCD(b, a % b)

Num(n, d) ==
    LET g == GCD(n, d)
    IN  [k |-> "num", n |-> n \div g, d |-> d \div g]

NaN ==
    [k |-> "NaN", n |-> 0, d |-> 1]

Undefined ==
    [k |-> "undefined", n |-> 0, d |-> 1]

\* a * b: anything but two numbers gives NaN
Mul(a, b) ==
    IF a.k = "num" /\ b.k = "num" THEN Num(a.n * b.n, a.d * b.d) ELSE NaN

\* Math.pow(b, e) for an integer e >= 0
RECURSIVE MathPow(_, _)
MathPow(b, e) ==
    IF b.k # "num" THEN NaN
    ELSE IF e = 0 THEN Num(1, 1)
    ELSE Mul(b, MathPow(b, e - 1))

\* Math.min(a, b): NaN as soon as one argument is not a number
MathMin(a, b) ==
    IF a.k # "num" \/ b.k # "num" THEN NaN
    ELSE IF a.n * b.d <= b.n * a.d THEN a ELSE b

(***************************************************************************)
(* config.js: APP_CONFIG, with the sections and keys it defines.  Reading  *)
(* a key a section does not define gives undefined.                        *)
(***************************************************************************)
APP_CONFIG ==
    [ TIMEOUTS |->
        [ API_REQUEST |-> Num(5000, 1),
          WS_CONNECTION |-> Num(10000, 1),
          HEALTH_CHECK |-> Num(30000, 1),
          STATS_UPDATE |-> Num(10000, 1),
          RECONNECT_DELAY |-> Num(3000, 1) ],
      RECONNECTION |->
        [ MAX_ATTEMPTS |-> Num(10, 1),
          BACKOFF_FACTOR |-> Num(3, 2),
          MAX_DELAY |-> Num(30000, 1) ],
      DATA |->
        [ MAX_HISTORY_DISPLAY |-> Num(50, 1),
          CACHE_DURATION |-> Num(300000, 1) ] ]

\* APP_CONFIG.<section>.<key>
Cfg(section, key) ==
    IF key \in DOMAIN APP_CONFIG[section] THEN APP_CONFIG[section][key] ELSE Undefined

\* this.maxReconnectAttempts, set in the constructor
maxReconnectAttempts ==
    Cfg("RECONNECTION", "MAX_ATTEMPTS").n

\* the delay attemptReconnect computes for attempt number `attempt`
ReconnectDelay(attempt) ==
    MathMin(Mul(Cfg("RECONNECTION", "RECONNECT_DELAY"),
                MathPow(Cfg("RECONNECTION", "BACKOFF_FACTOR"), attempt - 1)),
            Cfg("RECONNECTION", "MAX_DELAY"))


(***************************************************************************)
(* Bounds of the model.                                                    *)
(***************************************************************************)
\* transports (WebSocket objects) that can be alive at the same time
MaxLive == 2
\* reconnect timers still pending whose handle reconnectTimeout no longer holds
MaxLeakedTimers == 1
\* ping intervals still running whose handle pingInterval no longer holds
MaxLeakedPings == 1
\* forceReconnect() calls sleeping in their 1000 ms wait
MaxForce == 1
\* metrics.totalReconnects is followed up to this value, which stands for every
\* larger one
MaxTotalReconnects == 2

\* this.ws: null, a transport that has closed, or the position in socks of a
\* live transport
WsNull == 0
WsClosed == -1

(***************************************************************************)
(* State of WebSocketService, of the browser's WebSocket objects and       *)
(* timers it created, and what the last step did and emitted.              *)
(***************************************************************************)
VARIABLES
    socks,              \* live transports, oldest first: readyState, connect() promise
    ws,                 \* this.ws
    isConnected,        \* this.isConnected
    reconnectAttempts,  \* this.reconnectAttempts
    reconnectTimeout,   \* this.reconnectTimeout: "null", "pending" or "stale"
    leakedTimers,       \* pending reconnect timers no handle refers to
    pingInterval,       \* this.pingInterval: "null" or "active"
    leakedPings,        \* running ping intervals no handle refers to
    forcePending,       \* forceReconnect() calls waiting for the close to settle
    totalReconnects,    \* this.metrics.totalReconnects
    last,               \* the handler or call that ran last, with its input
    emitted,            \* the events that step handed to triggerCallbacks
    channels            \* the event names this.callbacks has lists for

feedVars ==
    <<socks, ws, isConnected, reconnectAttempts, reconnectTimeout, leakedTimers,
      pingInterval, leakedPings, forcePending, totalReconnects, last, emitted,
      channels>>

\* positions of the live transports
Slots ==
    1..Len(socks)

\* socks without the transport at position s
Remove(s) ==
    SubSeq(socks, 1, s - 1) \o SubSeq(socks, s + 1, Len(socks))

\* record of the step taken last: the handler or call, whether the transport
\* it is about was this.ws, that transport's readyState before the step, the
\* close code and wasClean, and the result (for a transport event: the state
\* of connect()'s promise before the step)
Step(op, cur, pre, code, clean, res) ==
    [op |-> op, cur |-> cur, pre |-> pre, code |-> code, clean |-> clean, res |-> res]

\* events handed to triggerCallbacks
Event(ev, kind, attempt, maxAttempts, delay, code, clean) ==
    [ev |-> ev, kind |-> kind, attempt |-> attempt, maxAttempts |-> maxAttempts,
     delay |-> delay, code |-> code, clean |-> clean, value |-> Undefined]

\* connect(), line 53: { attempt: this.reconnectAttempts + 1 }
EvConnecting(attempt) ==
    Event("onReconnecting", "connect", attempt, -1, Undefined, -1, FALSE)

\* attemptReconnect(), lines 259-263: { attempt, maxAttempts, delay }
EvReconnecting(attempt, delay) ==
    Event("onReconnecting", "scheduled", attempt, maxReconnectAttempts, delay, -1, FALSE)

\* attemptReconnect(), lines 240-243: { type: 'max_reconnects_reached', attempts }
EvMaxReconnects(attempts) ==
    Event("onError", "max_reconnects_reached", attempts, -1, Undefined, -1, FALSE)

\* handleError(), lines 228-231: { type: 'websocket_error', event }
EvWebsocketError ==
    Event("onError", "websocket_error", -1, -1, Undefined, -1, FALSE)

\* handleOpen(), lines 112-115: { connectionTime, url }
EvConnected ==
    Event("onConnected", "", -1, -1, Undefined, -1, FALSE)

\* handleClose(), lines 209-213: { code, reason, wasClean }
EvDisconnected(code, clean) ==
    Event("onDisconnected", "", -1, -1, Undefined, code, clean)

\* the keys of this.callbacks the constructor creates
AllChannels ==
    {"onData", "onConnected", "onDisconnected", "onError", "onReconnecting"}

\* destroy() has not been called: the page still uses the client
Alive ==
    channels # {}

\* a metric read from this.metrics = {}: undefined, NaN once incremented
NotANumber == -1

FeedInit ==
    /\ channels = AllChannels
    /\ socks = <<>>
    /\ ws = WsNull
    /\ isConnected = FALSE
    /\ reconnectAttempts = 0
    /\ reconnectTimeout = "null"
    /\ leakedTimers = 0
    /\ pingInterval = "null"
    /\ leakedPings = 0
    /\ forcePending = 0
    /\ totalReconnects = 0
    /\ last = Step("constructor", FALSE, "-", -1, FALSE, "-")
    /\ emitted = <<>>


(***************************************************************************)
(* Procedures the handlers share.                                          *)
(***************************************************************************)
\* a limit test that lets the counter pass the maximum
ExhaustedPastMax(attempts) ==
    attempts > maxReconnectAttempts

\* attemptReconnect() gives up: the counter has reached the maximum
Exhausted(attempts) ==
    attempts >= maxReconnectAttempts

\* attemptReconnect() that announces the attempt and arms no timer
AttemptReconnectNoTimer(attempts, rt, leaked, total) ==
    IF Exhausted(attempts)
    THEN [attempts |-> attempts, rt |-> rt, leaked |-> leaked, total |-> total,
          events |-> <<EvMaxReconnects(attempts)>>]
    ELSE [attempts |-> attempts + 1, rt |-> rt, leaked |-> leaked, total |-> total,
          events |-> <<EvReconnecting(attempts + 1, ReconnectDelay(attempts + 1))>>]

\* attemptReconnect(): the new counter, timer handle, leaked timers, metric and
\* the events it emits
AttemptReconnect(attempts, rt, leaked, total) ==
    IF Exhausted(attempts)
    THEN [attempts |-> attempts, rt |-> rt, leaked |-> leaked, total |-> total,
          events |-> <<EvMaxReconnects(attempts)>>]
    ELSE [attempts |-> attempts + 1,
          rt |-> "pending",
          leaked |-> IF rt = "pending" THEN leaked + 1 ELSE leaked,
          total |-> IF total # NotANumber /\ total < MaxTotalReconnects
                    THEN total + 1 ELSE total,
          events |-> <<EvReconnecting(attempts + 1, ReconnectDelay(attempts + 1))>>]

\* ShouldReconnect with the wasClean test inverted
ShouldReconnectInverted(code, clean) ==
    clean /\ code # 1000

\* the close event makes handleClose call attemptReconnect()
ShouldReconnect(code, clean) ==
    ~clean /\ code # 1000

\* the model follows this close: the counters it raises are within the bounds
WithinBounds(code, clean) ==
    (ShouldReconnect(code, clean) /\ ~Exhausted(reconnectAttempts)) =>
        (reconnectTimeout = "pending" => leakedTimers < MaxLeakedTimers)

\* this.ws after transport s has closed
WsAfterClose(s) ==
    IF ws = s THEN WsClosed
    ELSE IF ws > s THEN ws - 1
    ELSE ws

\* handleClose(event) for transport s; `pre` are the events the same task
\* emitted before it
HandleClose(s, code, clean, pre) ==
    LET ar == IF ShouldReconnect(code, clean)
              THEN AttemptReconnect(reconnectAttempts, reconnectTimeout,
                                    leakedTimers, totalReconnects)
              ELSE [attempts |-> reconnectAttempts, rt |-> reconnectTimeout,
                    leaked |-> leakedTimers, total |-> totalReconnects,
                    events |-> <<>>]
    IN  /\ isConnected' = FALSE
        /\ pingInterval' = "null"
        /\ emitted' = pre \o <<EvDisconnected(code, clean)>> \o ar.events
        /\ reconnectAttempts' = ar.attempts
        /\ reconnectTimeout' = ar.rt
        /\ leakedTimers' = ar.leaked
        /\ totalReconnects' = ar.total
        /\ ws' = WsAfterClose(s)
        /\ socks' = Remove(s)
        /\ last' = Step("handleClose", ws = s, socks[s].st, code, clean, socks[s].promise)
        /\ UNCHANGED <<leakedPings, forcePending>>

\* connect() without its already-connected guard
ConnectBodyUnguarded(op, pre) ==
    /\ Len(socks) < MaxLive
    /\ socks' = Append(socks, [st |-> "CONNECTING", promise |-> "pending"])
    /\ ws' = Len(socks) + 1
    /\ emitted' = pre \o <<EvConnecting(reconnectAttempts' + 1)>>
    /\ last' = Step(op, TRUE, "-", -1, FALSE, "pending")

\* the body of connect(), called by step `op` after it emitted the events `pre`
ConnectBody(op, pre) ==
    IF isConnected
    THEN /\ socks' = socks
         /\ ws' = ws
         /\ emitted' = pre
         /\ last' = Step(op, FALSE, "-", -1, FALSE, "true")
    ELSE /\ Len(socks) < MaxLive
         /\ socks' = Append(socks, [st |-> "CONNECTING", promise |-> "pending"])
         /\ ws' = Len(socks) + 1
         /\ emitted' = pre \o <<EvConnecting(reconnectAttempts' + 1)>>
         /\ last' = Step(op, TRUE, "-", -1, FALSE, "pending")

(***************************************************************************)
(* Calls of the page.                                                      *)
(***************************************************************************)
\* connect()
Connect ==
    /\ reconnectAttempts' = reconnectAttempts
    /\ ConnectBody("connect", <<>>)
    /\ UNCHANGED <<isConnected, reconnectTimeout, leakedTimers, pingInterval,
                   leakedPings, forcePending, totalReconnects>>

\* readyState of this.ws after this.ws.close(code, reason)
CloseCall(st) ==
    CASE st = "OPEN" -> "CLOSING"
      [] st = "CONNECTING" -> "FAILING"
      [] OTHER -> st

\* disconnect(code = 1000, reason)
DisconnectBody ==
    IF ws # WsNull /\ isConnected
    THEN /\ pingInterval' = "null"
         /\ reconnectTimeout' = "null"
         /\ socks' = IF ws \in Slots
                     THEN [socks EXCEPT ![ws].st = CloseCall(socks[ws].st)]
                     ELSE socks
    ELSE UNCHANGED <<pingInterval, reconnectTimeout, socks>>

Disconnect ==
    /\ DisconnectBody
    /\ last' = Step("disconnect", ws \in Slots, IF ws \in Slots THEN socks[ws].st ELSE "-", 1000, FALSE,
                    IF ws # WsNull /\ isConnected THEN "closing" ELSE "-")
    /\ emitted' = <<>>
    /\ UNCHANGED <<ws, isConnected, reconnectAttempts, leakedTimers, leakedPings,
                   forcePending, totalReconnects>>

\* forceReconnect() up to its await: connected, it disconnects and waits 1000 ms
ForceReconnectWait ==
    /\ isConnected
    /\ forcePending < MaxForce
    /\ DisconnectBody
    /\ forcePending' = forcePending + 1
    /\ last' = Step("forceReconnect", ws \in Slots, IF ws \in Slots THEN socks[ws].st ELSE "-", 1000, FALSE, "waiting")
    /\ emitted' = <<>>
    /\ UNCHANGED <<ws, isConnected, reconnectAttempts, leakedTimers, leakedPings,
                   totalReconnects>>

\* forceReconnect() when not connected: resets the counter and connects at once
ForceReconnectNow ==
    /\ ~isConnected
    /\ reconnectAttempts' = 0
    /\ ConnectBody("forceReconnect", <<>>)
    /\ UNCHANGED <<isConnected, reconnectTimeout, leakedTimers, pingInterval,
                   leakedPings, forcePending, totalReconnects>>

\* forceReconnect() after its 1000 ms wait: resets the counter and connects
ForceReconnectResume ==
    /\ forcePending > 0
    /\ forcePending' = forcePending - 1
    /\ reconnectAttempts' = 0
    /\ ConnectBody("forceReconnectResume", <<>>)
    /\ UNCHANGED <<isConnected, reconnectTimeout, leakedTimers, pingInterval,
                   leakedPings, totalReconnects>>


(***************************************************************************)
(* Timers.                                                                 *)
(***************************************************************************)
\* the callback of the timer reconnectTimeout refers to: await this.connect()
ReconnectTimerFire ==
    /\ reconnectTimeout = "pending"
    /\ reconnectTimeout' = "stale"
    /\ reconnectAttempts' = reconnectAttempts
    /\ ConnectBody("reconnectTimer", <<>>)
    /\ UNCHANGED <<isConnected, leakedTimers, pingInterval, leakedPings,
                   forcePending, totalReconnects>>

\* the callback of a reconnect timer whose handle was overwritten
LeakedTimerFire ==
    /\ leakedTimers > 0
    /\ leakedTimers' = leakedTimers - 1
    /\ reconnectAttempts' = reconnectAttempts
    /\ ConnectBody("leakedTimer", <<>>)
    /\ UNCHANGED <<isConnected, reconnectTimeout, pingInterval, leakedPings,
                   forcePending, totalReconnects>>

\* the WS_CONNECTION timer of connect()'s promise fires before open or error:
\* the promise is rejected, nothing else is touched
ConnectTimeout(s) ==
    /\ socks[s].st \in {"CONNECTING", "FAILING"}
    /\ socks[s].promise = "pending"
    /\ socks' = [socks EXCEPT ![s].promise = "timeout"]
    /\ last' = Step("connectTimeout", ws = s, socks[s].st, -1, FALSE, "timeout")
    /\ emitted' = <<>>
    /\ UNCHANGED <<ws, isConnected, reconnectAttempts, reconnectTimeout, leakedTimers,
                   pingInterval, leakedPings, forcePending, totalReconnects>>

(***************************************************************************)
(* Events of a transport.                                                  *)
(***************************************************************************)
\* connect()'s promise after onOpen / onError ran
Settle(promise, outcome) ==
    IF promise = "pending" THEN outcome ELSE promise

\* an open event whose handler leaves the attempt counter as it is
TransportOpenKeepsCounter(s) ==
    /\ socks[s].st = "CONNECTING"
    /\ pingInterval = "active" => leakedPings < MaxLeakedPings
    /\ socks' = [socks EXCEPT ![s].st = "OPEN",
                              ![s].promise = Settle(socks[s].promise, "resolved")]
    /\ isConnected' = TRUE
    /\ leakedPings' = IF pingInterval = "active" THEN leakedPings + 1 ELSE leakedPings
    /\ pingInterval' = "active"
    /\ emitted' = <<EvConnected>>
    /\ last' = Step("handleOpen", ws = s, socks[s].st, -1, FALSE, socks[s].promise)
    /\ UNCHANGED <<ws, reconnectAttempts, reconnectTimeout, leakedTimers, forcePending,
                   totalReconnects>>

\* open event: handleOpen(), then connect()'s onOpen
TransportOpen(s) ==
    /\ socks[s].st = "CONNECTING"
    /\ pingInterval = "active" => leakedPings < MaxLeakedPings
    /\ socks' = [socks EXCEPT ![s].st = "OPEN",
                              ![s].promise = Settle(socks[s].promise, "resolved")]
    /\ isConnected' = TRUE
    /\ reconnectAttempts' = 0
    /\ leakedPings' = IF pingInterval = "active" THEN leakedPings + 1 ELSE leakedPings
    /\ pingInterval' = "active"
    /\ emitted' = <<EvConnected>>
    /\ last' = Step("handleOpen", ws = s, socks[s].st, -1, FALSE, socks[s].promise)
    /\ UNCHANGED <<ws, reconnectTimeout, leakedTimers, forcePending, totalReconnects>>

\* the transport fails (refused, lost, close handshake not completed): error
\* event (handleError, connect()'s onError), then close event 1006, not clean
TransportFail(s) ==
    /\ socks[s].st \in {"CONNECTING", "OPEN", "CLOSING", "FAILING"}
    /\ WithinBounds(1006, FALSE)
    /\ HandleClose(s, 1006, FALSE, <<EvWebsocketError>>)

\* codes of a close the two ends completed
CleanCodes ==
    {1000, 1001}

\* the closing handshake completes: close event with the peer's code, clean
TransportClose(s, code) ==
    /\ socks[s].st \in {"OPEN", "CLOSING"}
    /\ WithinBounds(code, TRUE)
    /\ HandleClose(s, code, TRUE, <<>>)

\* the page calls the client until it has destroyed it; timers, transport
\* events and a forceReconnect() already waiting go on afterwards
FeedNext ==
    \/ Alive /\ Connect
    \/ Alive /\ Disconnect
    \/ Alive /\ ForceReconnectWait
    \/ Alive /\ ForceReconnectNow
    \/ ForceReconnectResume
    \/ ReconnectTimerFire
    \/ LeakedTimerFire
    \/ \E s \in Slots : ConnectTimeout(s)
    \/ \E s \in Slots : TransportOpen(s)
    \/ \E s \in Slots : TransportFail(s)
    \/ \E s \in Slots, code \in CleanCodes : TransportClose(s, code)

(***************************************************************************)
(* config.js: extractLDRValue(rawData).  A raw value is what JSON gives:   *)
(* a number (n / d), a string (here a sequence of characters) or null.     *)
(***************************************************************************)
\* the number n / d
NumberF(n, d) ==
    [t |-> "number", n |-> n, d |-> d, s |-> <<>>]

NumberV(n) ==
    NumberF(n, 1)

StringV(s) ==
    [t |-> "string", n |-> 0, d |-> 1, s |-> s]

NullV ==
    [t |-> "null", n |-> 0, d |-> 1, s |-> <<>>]

DecDigits ==
    <<"0", "1", "2", "3", "4", "5", "6", "7", "8", "9">>

IsDigit(c) ==
    \E i \in 1..10 : DecDigits[i] = c

DigitVal(c) ==
    (CHOOSE i \in 1..10 : DecDigits[i] = c) - 1

\* the longest run of decimal digits of s that starts at position i
RECURSIVE DigitRun(_, _)
DigitRun(s, i) ==
    IF i <= Len(s) /\ IsDigit(s[i]) THEN <<s[i]>> \o DigitRun(s, i + 1) ELSE <<>>

\* the number a non-empty run of decimal digits denotes
RECURSIVE DigitsValue(_)
DigitsValue(ds) ==
    IF ds = <<>> THEN 0
    ELSE 10 * DigitsValue(SubSeq(ds, 1, Len(ds) - 1)) + DigitVal(ds[Len(ds)])

\* s has the characters of `marker` from position i on
MatchAt(s, i, marker) ==
    /\ i + Len(marker) - 1 <= Len(s)
    /\ \A k \in 1..Len(marker) : s[i + k - 1] = marker[k]

Marker ==
    <<"L", "D", "R", "=">>

\* rawData.includes('LDR=')
IncludesMarker(s) ==
    \E i \in 1..Len(s) : MatchAt(s, i, Marker)

\* rawData.match(/LDR=(\d+)/): the positions where the pattern matches
MarkerMatches(s) ==
    {i \in 1..Len(s) : MatchAt(s, i, Marker) /\ DigitRun(s, i + Len(Marker)) # <<>>}

\* parseInt skips leading blanks
RECURSIVE SkipBlanks(_, _)
SkipBlanks(s, i) ==
    IF i <= Len(s) /\ s[i] = " " THEN SkipBlanks(s, i + 1) ELSE i

HexLower ==
    <<"0", "1", "2", "3", "4", "5", "6", "7", "8", "9", "a", "b", "c", "d", "e", "f">>

HexUpper ==
    <<"0", "1", "2", "3", "4", "5", "6", "7", "8", "9", "A", "B", "C", "D", "E", "F">>

IsHexDigit(c) ==
    \E i \in 1..16 : HexLower[i] = c \/ HexUpper[i] = c

HexVal(c) ==
    (CHOOSE i \in 1..16 : HexLower[i] = c \/ HexUpper[i] = c) - 1

RECURSIVE HexRun(_, _)
HexRun(s, i) ==
    IF i <= Len(s) /\ IsHexDigit(s[i]) THEN <<s[i]>> \o HexRun(s, i + 1) ELSE <<>>

RECURSIVE HexValue(_)
HexValue(ds) ==
    IF ds = <<>> THEN 0
    ELSE 16 * HexValue(SubSeq(ds, 1, Len(ds) - 1)) + HexVal(ds[Len(ds)])

\* parseInt(s) for a string: leading blanks, an optional sign, an optional
\* 0x prefix (then hexadecimal digits), else decimal digits; NaN without a digit
ParseInt(s) ==
    LET i == SkipBlanks(s, 1)
        signed == i <= Len(s) /\ s[i] \in {"-", "+"}
        j == IF signed THEN i + 1 ELSE i
        hex == j + 1 <= Len(s) /\ s[j] = "0" /\ s[j + 1] \in {"x", "X"}
        ds == IF hex THEN HexRun(s, j + 2) ELSE DigitRun(s, j)
        v == IF hex THEN HexValue(ds) ELSE DigitsValue(ds)
    IN  IF ds = <<>> THEN NaN
        ELSE IF signed /\ s[i] = "-" THEN Num(0 - v, 1)
        ELSE Num(v, 1)

\* x || 0
OrZero(x) ==
    IF x.k # "num" \/ x.n = 0 THEN Num(0, 1) ELSE x

extractLDRValue(rawData) ==
    IF rawData.t = "number" THEN Num(rawData.n, rawData.d)
    ELSE IF rawData.t = "string" /\ IncludesMarker(rawData.s)
    THEN IF MarkerMatches(rawData.s) # {}
         THEN LET i == CHOOSE m \in MarkerMatches(rawData.s) :
                          \A o \in MarkerMatches(rawData.s) : m <= o
              IN  Num(DigitsValue(DigitRun(rawData.s, i + Len(Marker))), 1)
         ELSE Num(0, 1)
    ELSE IF rawData.t = "string" THEN OrZero(ParseInt(rawData.s))
    ELSE Num(0, 1)

(***************************************************************************)
(* Inbound frames, the onData listeners and the metrics of the feed.       *)
(***************************************************************************)
\* frames handled altogether
MaxFrames == 2
\* listener functions of the page
MaxListeners == 3
\* entries of the onData callback list
MaxCallbacks == 2
\* transports alive at the same time while the frames are explored
MaxLinks == 1

VARIABLES
    callbacks,          \* this.callbacks.onData: the listeners, in registration order
    invoked,            \* the listener calls the last step made, in order: listener, value
    sent,               \* the frames the last step handed to a transport: type, readyState
    messagesReceived,   \* this.metrics.messagesReceived
    avgLatency          \* this.metrics.avgLatency

msgVars ==
    <<callbacks, invoked, sent, messagesReceived, avgLatency>>

Listeners ==
    1..MaxListeners

\* what a listener does when it is called: returns, throws, or unsubscribes
\* itself with off() before returning
Behaviour(l) ==
    CASE l = 2 -> "throws"
      [] l = 3 -> "offSelf"
      [] OTHER -> "returns"

\* values of the value field of the ldr_update frames
RawSamples ==
    { NumberV(742),
      StringV(<<"L", "D", "R", "=", "1", "2", "3">>),
      StringV(<<"9", "9", "9">>),
      StringV(<<"a", "b", "c">>) }

\* Date.now() - data.timestamp of the pong frames
LatencySamples ==
    {0, 100}

\* the frames: text that is not JSON ("invalid"), the JSON text null ("null"),
\* or a JSON object with its type, the value of an ldr_update, the latency of
\* a pong that echoes a timestamp
Frame(type, value, latency) ==
    [type |-> type, value |-> value, latency |-> latency]

Frames ==
    {Frame("invalid", NullV, -1), Frame("system_status", NullV, -1),
     Frame("other", NullV, -1), Frame("pong", NullV, -1), Frame("null", NullV, -1)}
    \cup {Frame("ldr_update", v, -1) : v \in RawSamples}
    \cup {Frame("pong", NullV, l) : l \in LatencySamples}

MsgInit ==
    /\ callbacks = <<>>
    /\ invoked = <<>>
    /\ sent = <<>>
    /\ messagesReceived = 0
    /\ avgLatency = Num(0, 1)

\* a + b
Add(a, b) ==
    IF a.k = "num" /\ b.k = "num" THEN Num(a.n * b.d + b.n * a.d, a.d * b.d) ELSE NaN

\* updateLatency(latency)
updateLatency(avg, latency) ==
    IF avg = Num(0, 1) THEN Num(latency, 1)
    ELSE Add(Mul(avg, Num(8, 10)), Mul(Num(latency, 1), Num(2, 10)))

\* cbs without its first entry for listener l: off() (indexOf, splice)
OffList(cbs, l) ==
    IF \E i \in 1..Len(cbs) : cbs[i] = l
    THEN LET i == CHOOSE k \in 1..Len(cbs) : cbs[k] = l /\ \A m \in 1..(k - 1) : cbs[m] # l
         IN  SubSeq(cbs, 1, i - 1) \o SubSeq(cbs, i + 1, Len(cbs))
    ELSE cbs

\* a dispatch that a throwing listener ends
RECURSIVE DispatchUncaught(_, _, _, _, _)
DispatchUncaught(cbs, k, len, calls, value) ==
    IF k > len THEN [cbs |-> cbs, calls |-> calls]
    ELSE IF k > Len(cbs) THEN DispatchUncaught(cbs, k + 1, len, calls, value)
    ELSE LET l == cbs[k]
         IN  IF Behaviour(l) = "throws"
             THEN [cbs |-> cbs, calls |-> Append(calls, [l |-> l, value |-> value])]
             ELSE DispatchUncaught(IF Behaviour(l) = "offSelf" THEN OffList(cbs, l) ELSE cbs,
                                   k + 1, len, Append(calls, [l |-> l, value |-> value]),
                                   value)

\* triggerCallbacks: forEach over the callback list itself, from index k to the
\* length len the list had when forEach began; an index the list no longer
\* has is skipped; a listener that throws is caught.  Gives the list and the
\* calls made.
RECURSIVE Dispatch(_, _, _, _, _)
Dispatch(cbs, k, len, calls, value) ==
    IF k > len THEN [cbs |-> cbs, calls |-> calls]
    ELSE IF k > Len(cbs) THEN Dispatch(cbs, k + 1, len, calls, value)
    ELSE LET l == cbs[k]
         IN  Dispatch(IF Behaviour(l) = "offSelf" THEN OffList(cbs, l) ELSE cbs,
                      k + 1, len, Append(calls, [l |-> l, value |-> value]), value)

triggerCallbacks(cbs, value) ==
    Dispatch(cbs, 1, Len(cbs), <<>>, value)

\* what the listeners are handed for a system_status frame
StatusV ==
    [k |-> "system_status", n |-> 0, d |-> 1]

\* handleLDRUpdate / handleSystemStatus: the onData event
EvData(kind, value) ==
    [Event("onData", kind, -1, -1, Undefined, -1, FALSE) EXCEPT !.value = value]

\* a catch that hands the exception to the data listeners
EvParseErrorAsData ==
    [Event("onData", "parse_error", -1, -1, Undefined, -1, FALSE) EXCEPT !.value = NaN]

\* handleMessage's catch: onError with the exception
EvParseError ==
    Event("onError", "parse_error", -1, -1, Undefined, -1, FALSE)

\* handleMessage's catch: onError with the TypeError of reading null.type
EvTypeError ==
    Event("onError", "type_error", -1, -1, Undefined, -1, FALSE)

\* on('onData', l), for a listener not registered yet
On(l) ==
    /\ Len(callbacks) < MaxCallbacks
    /\ \A i \in 1..Len(callbacks) : callbacks[i] # l
    /\ callbacks' = Append(callbacks, l)
    /\ invoked' = <<>>
    /\ emitted' = <<>>
    /\ last' = Step("on", FALSE, "-", -1, FALSE, "-")
    /\ sent' = <<>>
    /\ UNCHANGED <<channels, socks, ws, isConnected, reconnectAttempts, reconnectTimeout,
                   leakedTimers, pingInterval, leakedPings, forcePending,
                   totalReconnects, messagesReceived, avgLatency>>

\* off('onData', l)
Off(l) ==
    /\ callbacks' = OffList(callbacks, l)
    /\ invoked' = <<>>
    /\ emitted' = <<>>
    /\ last' = Step("off", FALSE, "-", -1, FALSE, "-")
    /\ sent' = <<>>
    /\ UNCHANGED <<channels, socks, ws, isConnected, reconnectAttempts, reconnectTimeout,
                   leakedTimers, pingInterval, leakedPings, forcePending,
                   totalReconnects, messagesReceived, avgLatency>>

\* a handler that hands every typed frame to the onData listeners
DataOfAnyType(f) ==
    CASE f.type = "ldr_update" -> <<EvData("ldr_update", extractLDRValue(f.value))>>
      [] OTHER -> <<EvData(f.type, StatusV)>>

\* the onData event handleMessage emits for frame f, if any
DataOf(f) ==
    CASE f.type = "ldr_update" -> <<EvData("ldr_update", extractLDRValue(f.value))>>
      [] f.type = "system_status" -> <<EvData("system_status", StatusV)>>
      [] OTHER -> <<>>

\* message event of transport s: handleMessage(event)
Message(s, f) ==
    /\ socks[s].st \in {"OPEN", "CLOSING"}
    /\ messagesReceived < MaxFrames
    /\ IF f.type = "invalid"
       THEN /\ emitted' = <<EvParseError>>
            /\ invoked' = <<>>
            /\ UNCHANGED <<callbacks, messagesReceived, avgLatency>>
       ELSE IF f.type = "null"
       THEN /\ messagesReceived' = IF messagesReceived = NotANumber THEN NotANumber
                                    ELSE messagesReceived + 1
            /\ emitted' = <<EvTypeError>>
            /\ invoked' = <<>>
            /\ UNCHANGED <<callbacks, avgLatency>>
       ELSE /\ messagesReceived' = IF messagesReceived = NotANumber THEN NotANumber
                                    ELSE messagesReceived + 1
            /\ emitted' = DataOf(f)
            /\ LET d == IF DataOf(f) = <<>> \/ "onData" \notin channels
                        THEN [cbs |-> callbacks, calls |-> <<>>]
                        ELSE triggerCallbacks(callbacks, DataOf(f)[1].value)
               IN  callbacks' = d.cbs /\ invoked' = d.calls
            /\ avgLatency' = IF f.type = "pong" /\ f.latency >= 0
                             THEN updateLatency(avgLatency, f.latency)
                             ELSE avgLatency
    /\ last' = Step("handleMessage", ws = s, socks[s].st, -1, FALSE, f.type)
    /\ sent' = <<>>
    /\ UNCHANGED <<channels, socks, ws, isConnected, reconnectAttempts, reconnectTimeout,
                   leakedTimers, pingInterval, leakedPings, forcePending,
                   totalReconnects>>

MsgNext ==
    \/ \E l \in Listeners : Alive /\ On(l)
    \/ \E l \in Listeners : Alive /\ Off(l)
    \/ \E s \in Slots, f \in Frames : Message(s, f)

\* a step of the connection leaves the listeners and message metrics alone
FeedStep(A) ==
    /\ A
    /\ invoked' = <<>>
    /\ sent' = <<>>
    /\ UNCHANGED <<callbacks, messagesReceived, avgLatency, channels>>

\* the connection steps the message handling is explored with
LinkNext ==
    \/ Alive /\ FeedStep(Connect) /\ Len(socks) < MaxLinks
    \/ \E s \in Slots : FeedStep(TransportOpen(s))
    \/ \E s \in Slots, code \in CleanCodes : FeedStep(TransportClose(s, code))

(***************************************************************************)
(* send() and destroy().                                                   *)
(***************************************************************************)
\* a frame handed to this.ws.send, and the readyState of the transport then
Outbound(type, st) ==
    [type |-> type, st |-> st]

\* readyState of this.ws; this.ws is null or its transport is closed
ReadyState ==
    IF ws \in Slots THEN socks[ws].st
    ELSE IF ws = WsClosed THEN "CLOSED"
    ELSE "null"

\* this.ws.send(data): throws while CONNECTING (and on null), transmits while
\* OPEN, discards silently while CLOSING or CLOSED
WsSend(st) ==
    CASE st \in {"CONNECTING", "FAILING", "null"} -> [threw |-> TRUE, out |-> <<>>]
      [] st = "OPEN" -> [threw |-> FALSE, out |-> <<Outbound("message", st)>>]
      [] OTHER -> [threw |-> FALSE, out |-> <<>>]

\* send(message) without its guard
SendUnguarded ==
    /\ sent' = WsSend(ReadyState).out
    /\ last' = Step("send", ws \in Slots, ReadyState, -1, FALSE,
                    IF WsSend(ReadyState).threw THEN "false" ELSE "true")

\* send(message): what it transmits and returns
SendBody ==
    IF ~isConnected \/ ReadyState # "OPEN"
    THEN /\ sent' = <<>>
         /\ last' = Step("send", ws \in Slots, ReadyState, -1, FALSE, "false")
    ELSE /\ sent' = WsSend(ReadyState).out
         /\ last' = Step("send", ws \in Slots, ReadyState, -1, FALSE,
                         IF WsSend(ReadyState).threw THEN "false" ELSE "true")

\* send(message), called by the page
Send ==
    /\ Alive
    /\ SendBody
    /\ emitted' = <<>>
    /\ invoked' = <<>>
    /\ UNCHANGED <<socks, ws, isConnected, reconnectAttempts, reconnectTimeout,
                   leakedTimers, pingInterval, leakedPings, forcePending,
                   totalReconnects, channels, callbacks, messagesReceived, avgLatency>>

\* destroy(): disconnect(), stopPingInterval(), clearTimeout, the callback
\* lists, this.ws, this.callbacks and this.metrics dropped
Destroy ==
    /\ Alive
    /\ socks' = IF ws \in Slots /\ isConnected
                THEN [socks EXCEPT ![ws].st = CloseCall(socks[ws].st)]
                ELSE socks
    /\ pingInterval' = "null"
    /\ reconnectTimeout' = IF ws # WsNull /\ isConnected THEN "null"
                           ELSE IF reconnectTimeout = "pending" THEN "stale"
                           ELSE reconnectTimeout
    /\ ws' = WsNull
    /\ channels' = {}
    /\ callbacks' = <<>>
    /\ totalReconnects' = NotANumber
    /\ messagesReceived' = NotANumber
    /\ avgLatency' = Undefined
    /\ last' = Step("destroy", ws \in Slots, ReadyState, 1000, FALSE, "-")
    /\ emitted' = <<>>
    /\ invoked' = <<>>
    /\ sent' = <<>>
    /\ UNCHANGED <<isConnected, reconnectAttempts, leakedTimers, leakedPings,
                   forcePending>>

\* sendPing(): this.ws.send inside try/catch
PingFrames(st) ==
    [i \in 1..Len(WsSend(st).out) |-> Outbound("ping", st)]

\* the callback of a running ping interval, the one this.pingInterval holds or
\* one whose handle was overwritten: reading this.ws.readyState throws when
\* this.ws is null
PingTick ==
    /\ pingInterval = "active" \/ leakedPings > 0
    /\ IF ~isConnected
       THEN /\ sent' = <<>>
            /\ last' = Step("pingInterval", ws \in Slots, ReadyState, -1, FALSE, "idle")
       ELSE IF ReadyState = "null"
       THEN /\ sent' = <<>>
            /\ last' = Step("pingInterval", FALSE, ReadyState, -1, FALSE, "threw")
       ELSE IF ReadyState = "OPEN"
       THEN /\ sent' = PingFrames(ReadyState)
            /\ last' = Step("pingInterval", TRUE, ReadyState, -1, FALSE, "ping")
       ELSE /\ sent' = <<>>
            /\ last' = Step("pingInterval", ws \in Slots, ReadyState, -1, FALSE, "idle")
    /\ emitted' = <<>>
    /\ invoked' = <<>>
    /\ UNCHANGED <<socks, ws, isConnected, reconnectAttempts, reconnectTimeout,
                   leakedTimers, pingInterval, leakedPings, forcePending,
                   totalReconnects, channels, callbacks, messagesReceived, avgLatency>>

(***************************************************************************)
(* extractLDRValue applied to the raw values a frame or a reading can      *)
(* carry.                                                                  *)
(***************************************************************************)
\* length of the strings tried
MaxLen == 5

\* characters of the strings tried
Alphabet ==
    {"L", "D", "R", "=", "7", "x", "-"}

\* every string over the alphabet, up to the length
ShortStrings ==
    UNION {[1..n -> Alphabet] : n \in 0..MaxLen}

\* the strings of the specification's examples, and strings with blanks, a
\* sign, a hexadecimal prefix, text after the digits, text around the marker
LongStrings ==
    { <<"L", "D", "R", "=", "7", "4", "2">>,
      <<"9", "9", "9">>,
      <<"a", "b", "c">>,
      <<" ", "4", "2">>,
      <<"+", "5">>,
      <<"0", "x", "1", "F">>,
      <<"1", "2", "a", "b", "c">>,
      <<"x", "L", "D", "R", "=", "1", "2", "y", "3">>,
      <<"L", "D", "R", "=", " ", "L", "D", "R", "=", "5">> }

\* numbers JSON can carry: integers and fractions
NumberSamples ==
    {NumberV(0), NumberV(742), NumberV(1023), NumberV(0 - 5),
     NumberF(1, 2), NumberF(1485, 2)}

RawValues ==
    {StringV(s) : s \in ShortStrings \cup LongStrings} \cup NumberSamples \cup {NullV}

\* extractLDRValue(raw), as handleLDRUpdate and the typed wrappers call it
Decode(raw) ==
    /\ last' = Step("extractLDRValue", FALSE, "-", -1, FALSE,
                    [raw |-> raw, value |-> extractLDRValue(raw)])
    /\ emitted' = <<>>
    /\ invoked' = <<>>
    /\ sent' = <<>>
    /\ UNCHANGED <<socks, ws, isConnected, reconnectAttempts, reconnectTimeout,
                   leakedTimers, pingInterval, leakedPings, forcePending,
                   totalReconnects, channels, callbacks, messagesReceived, avgLatency>>

\* one behaviour decodes one raw value: the function keeps no state
DecodeNext ==
    /\ last.op = "constructor"
    /\ \E raw \in RawValues : Decode(raw)

(***************************************************************************)
(* APIService (api-service.js): request() with its cache and metrics, the  *)
(* typed wrappers and getCompleteData(), against a server whose answers    *)
(* are drawn freely.                                                       *)
(***************************************************************************)
\* calls of request() followed
MaxRequests == 3
\* calls of getCompleteData() followed
MaxCompletes == 2
\* fetches in flight at a time
MaxInFlight == 2
\* length of the run, in steps of half the default cache duration
MaxTicks == 3
\* versions of the server's data
MaxVersion == 1
\* calls of runDiagnostics() followed
MaxDiagnostics == 2

\* the addresses request() is called with: BACKEND_CONFIG.ENDPOINTS, and
\* "history", the history endpoint with the limit parameter getHistory adds
\* ("history_all" is the endpoint without parameters)
Resources ==
    {"health", "latest", "stats", "history", "history_all", "network"}

\* Object.entries(BACKEND_CONFIG.ENDPOINTS), in order
Endpoints ==
    <<"health", "latest", "history_all", "stats", "network">>

EndpointSet ==
    {Endpoints[i] : i \in 1..Len(Endpoints)}

Methods ==
    {"GET", "POST"}

\* cacheKey: `${options.method || 'GET'}_${url}`
CacheKey(method, res) ==
    <<method, res>>

CacheKeys ==
    {CacheKey(m, r) : m \in Methods, r \in Resources}

\* the response envelope { success: true, data }: whether data is there, and
\* the version of the server's data it was built from
Payload(shape, ver) ==
    [shape |-> shape, ver |-> ver]

NoPayload ==
    Payload("none", 0)

\* no entry under a key
NoEntry ==
    [has |-> FALSE, data |-> NoPayload, timestamp |-> 0]

VARIABLES
    now,                \* Date.now()
    serverVersion,      \* version of the data the server holds
    cache,              \* this.cache: key -> { data, timestamp }
    cacheTimeout,       \* this.cacheTimeout
    timeout,            \* this.timeout
    requestCount,       \* this.metrics.requestCount
    successCount,       \* this.metrics.successCount
    errorCount,         \* this.metrics.errorCount
    avgResponseTime,    \* this.metrics.avgResponseTime
    flights,            \* fetches in flight, oldest first
    complete,           \* the getCompleteData() call in progress, if any
    diagnostics,        \* the runDiagnostics() call in progress, if any
    apiLast             \* the API step that ran last, with what it returned

apiVars ==
    <<now, serverVersion, cache, cacheTimeout, timeout, requestCount, successCount,
      errorCount, avgResponseTime, flights, complete, diagnostics, apiLast>>

\* no runDiagnostics() in progress: per endpoint, the entry of
\* diagnostics.endpoints and how the probe was answered
NoDiagnostics ==
    [st |-> "idle", endpoints |-> [e \in EndpointSet |-> "pending"],
     probes |-> [e \in EndpointSet |-> "none"]]

\* the three sub-calls of getCompleteData, in the order of its array
Slots3 ==
    <<"latest", "stats", "history">>

\* a sub-call that has not settled
Pending ==
    [st |-> "pending", value |-> NoPayload, reason |-> "-"]

\* no getCompleteData() in progress
Idle ==
    [st |-> "idle", settled |-> [r \in {"latest", "stats", "history"} |-> Pending],
     order |-> <<>>]

\* no completeData
NoResult ==
    [latest |-> NoPayload, stats |-> NoPayload, recentHistory |-> NoPayload,
     errors |-> <<>>, settled |-> Idle.settled, order |-> <<>>]

\* record of an API step: the operation, the resource, how it ended, the
\* payload returned, the network calls the step issued; for request() its
\* method, whether the lookup met an expired entry, and the error thrown
ApiStep(op, res, outcome, value, net) ==
    [op |-> op, res |-> res, outcome |-> outcome, value |-> value, net |-> net,
     method |-> "-", expired |-> FALSE, reason |-> "-", result |-> NoResult]

\* the client after construction, its cache ranging over the keys given
ApiInitOver(keys) ==
    /\ now = 0
    /\ serverVersion = 0
    /\ cache = [k \in keys |-> NoEntry]
    /\ cacheTimeout = Cfg("DATA", "CACHE_DURATION").n
    /\ timeout = Cfg("TIMEOUTS", "API_REQUEST").n
    /\ requestCount = 0
    /\ successCount = 0
    /\ errorCount = 0
    /\ avgResponseTime = Num(0, 1)
    /\ flights = <<>>
    /\ complete = Idle
    /\ diagnostics = NoDiagnostics
    /\ apiLast = ApiStep("constructor", "-", "-", NoPayload, 0)

ApiInit ==
    ApiInitOver(CacheKeys)

\* an entry that never expires
ExpiredNever(entry, t, ttl) ==
    FALSE

\* getFromCache(key): the entry is expired
Expired(entry, t, ttl) ==
    t - entry.timestamp > ttl

\* getFromCache(key) returns the cached data
CacheHit(c, key, t, ttl) ==
    c[key].has /\ ~Expired(c[key], t, ttl)

\* this.cache after getFromCache(key): an expired entry is deleted
AfterLookup(c, key, t, ttl) ==
    IF c[key].has /\ Expired(c[key], t, ttl) THEN [c EXCEPT ![key] = NoEntry] ELSE c

\* a request() that looks in the cache whatever the method
UsesCacheAlways(method) ==
    TRUE

\* request() looks in the cache: no method given, or GET
UsesCache(method) ==
    method = "GET"

\* setCache(key, data)
setCache(c, key, data, t) ==
    [c EXCEPT ![key] = [has |-> TRUE, data |-> data, timestamp |-> t]]

\* updateResponseTime(responseTime)
updateResponseTime(avg, responseTime) ==
    IF avg = Num(0, 1) THEN Num(responseTime, 1)
    ELSE Add(Mul(avg, Num(8, 10)), Mul(Num(responseTime, 1), Num(2, 10)))

\* entries of this.cache
CacheSize(c) ==
    Cardinality({k \in DOMAIN c : c[k].has})

\* a cleanup that keeps only the entries stored at this instant
cleanupCacheEvicting(c, t, ttl) ==
    [k \in DOMAIN c |-> IF c[k].has /\ c[k].timestamp # t THEN NoEntry ELSE c[k]]

\* cleanupCache(): every expired entry is deleted
cleanupCache(c, t, ttl) ==
    [k \in DOMAIN c |-> IF c[k].has /\ Expired(c[k], t, ttl) THEN NoEntry ELSE c[k]]

\* setCache(key, data) with its periodic cleanup
SetCacheAndSweep(c, key, data, t, ttl) ==
    LET stored == setCache(c, key, data, t)
    IN  IF CacheSize(stored) > 50 THEN cleanupCache(stored, t, ttl) ELSE stored

\* a fetch in flight: resource, method, Date.now() at the start of request(),
\* the time its abort timer fires, and who awaits it
Flight(res, method, owner) ==
    [res |-> res, method |-> method, start |-> now, deadline |-> now + timeout,
     owner |-> owner]

\* flights without the i-th
Landed(i) ==
    SubSeq(flights, 1, i - 1) \o SubSeq(flights, i + 1, Len(flights))

\* what a typed wrapper makes of the envelope request() returned:
\* getLatestReading, getStats, getHistory
Fulfilled(value) ==
    [st |-> "fulfilled", value |-> value, reason |-> "-"]

Rejected(reason) ==
    [st |-> "rejected", value |-> NoPayload, reason |-> reason]

NullValue ==
    Payload("null", 0)

Wrapper(res, envelope) ==
    CASE res = "latest" ->
            IF envelope.shape = "data" THEN Fulfilled(Payload("reading", envelope.ver))
            ELSE Fulfilled(NullValue)
      [] res = "stats" ->
            IF envelope.shape = "data" THEN Fulfilled(Payload("stats", envelope.ver))
            ELSE Rejected("TypeError")
      [] OTHER ->
            IF envelope.shape = "data" THEN Fulfilled(Payload("list", envelope.ver))
            ELSE Rejected("TypeError")

\* one sub-call of getCompleteData() settles
SettleSlot(c, res, settlement) ==
    [c EXCEPT !.settled[res] = settlement, !.order = Append(@, res)]

\* request(endpoint, options): up to the first await, for the caller owner
RequestCall(res, method, owner) ==
    /\ Len(flights) < MaxInFlight
    /\ requestCount' = requestCount + 1
    /\ LET key == CacheKey(method, res)
       IN  IF UsesCache(method) /\ CacheHit(cache, key, now, cacheTimeout)
           THEN /\ apiLast' = [ApiStep("request", res, "cached", cache[key].data, 0)
                               EXCEPT !.method = method]
                /\ UNCHANGED <<cache, flights>>
           ELSE /\ cache' = IF UsesCache(method)
                            THEN AfterLookup(cache, key, now, cacheTimeout) ELSE cache
                /\ flights' = Append(flights, Flight(res, method, owner))
                /\ apiLast' = [ApiStep("request", res, "fetching", NoPayload, 1)
                               EXCEPT !.method = method,
                                      !.expired = /\ UsesCache(method)
                                                  /\ cache[key].has
                                                  /\ Expired(cache[key], now, cacheTimeout)]
    /\ UNCHANGED <<now, serverVersion, cacheTimeout, timeout, successCount, errorCount,
                   avgResponseTime, complete>>
    /\ UNCHANGED diagnostics

\* request(endpoint, options) called by the page
Request(res, method) ==
    /\ requestCount < MaxRequests
    /\ RequestCall(res, method, "request")

\* the awaiting caller of flight f resumes with a payload or an error
Resume(f, outcome, envelope, reason) ==
    IF f.owner \in {"request", "poll"}
    THEN /\ apiLast' = [ApiStep("request", f.res, outcome, envelope, 0)
                        EXCEPT !.method = f.method, !.reason = reason]
         /\ UNCHANGED <<complete, diagnostics>>
    ELSE IF f.owner = "diagnostics"
    THEN /\ diagnostics' =
               [diagnostics EXCEPT
                  !.endpoints[f.res] = IF outcome = "returned" THEN "healthy"
                                       ELSE "unreachable",
                  !.probes[f.res] = IF outcome = "returned" THEN "answered" ELSE "failed"]
         /\ apiLast' = [ApiStep("pingEndpoint", f.res, outcome, envelope, 0)
                        EXCEPT !.method = f.method, !.reason = reason]
         /\ UNCHANGED complete
    ELSE /\ UNCHANGED diagnostics
         /\ complete' = SettleSlot(complete, f.res,
                                   IF outcome = "returned" THEN Wrapper(f.res, envelope)
                                   ELSE Rejected(reason))
         /\ apiLast' = [ApiStep("subcall", f.res, outcome, envelope, 0)
                        EXCEPT !.method = f.method, !.reason = reason]

ShapeSamples ==
    {"data", "nodata"}

\* the server answers flight i with { success: true, data }
RespondSuccess(i, shape) ==
    LET f == flights[i]
        envelope == Payload(shape, serverVersion)
    IN  /\ now <= f.deadline
        /\ flights' = Landed(i)
        /\ avgResponseTime' = updateResponseTime(avgResponseTime, now - f.start)
        /\ cache' = IF UsesCache(f.method)
                    THEN SetCacheAndSweep(cache, CacheKey(f.method, f.res), envelope,
                                          now, cacheTimeout)
                    ELSE cache
        /\ successCount' = successCount + 1
        /\ Resume(f, "returned", envelope, "-")
        /\ UNCHANGED <<now, serverVersion, cacheTimeout, timeout, requestCount, errorCount>>

StatusFailures ==
    {"HTTP", "Server", "Syntax"}

\* the server answers flight i with a non-success status, with
\* { success: false, error }, or with a body that is not JSON
RespondFailure(i, kind) ==
    LET f == flights[i]
    IN  /\ now <= f.deadline
        /\ flights' = Landed(i)
        /\ avgResponseTime' = updateResponseTime(avgResponseTime, now - f.start)
        /\ errorCount' = errorCount + 1
        /\ Resume(f, "threw", NoPayload, kind)
        /\ UNCHANGED <<now, serverVersion, cache, cacheTimeout, timeout, requestCount,
                       successCount>>

\* a rejected fetch() that is not counted as an error
NetworkErrorUncounted(i) ==
    LET f == flights[i]
    IN  /\ now <= f.deadline
        /\ flights' = Landed(i)
        /\ Resume(f, "threw", NoPayload, "Network")
        /\ UNCHANGED <<now, serverVersion, cache, cacheTimeout, timeout, requestCount,
                       successCount, errorCount, avgResponseTime>>

\* fetch() of flight i rejects: the network is down
NetworkError(i) ==
    LET f == flights[i]
    IN  /\ now <= f.deadline
        /\ flights' = Landed(i)
        /\ errorCount' = errorCount + 1
        /\ Resume(f, "threw", NoPayload, "Network")
        /\ UNCHANGED <<now, serverVersion, cache, cacheTimeout, timeout, requestCount,
                       successCount, avgResponseTime>>

\* the abort timer of flight i fires
RequestTimeout(i) ==
    LET f == flights[i]
    IN  /\ now >= f.deadline
        /\ flights' = Landed(i)
        /\ errorCount' = errorCount + 1
        /\ Resume(f, "threw", NoPayload, "Timeout")
        /\ UNCHANGED <<now, serverVersion, cache, cacheTimeout, timeout, requestCount,
                       successCount, avgResponseTime>>

GetKey(res) ==
    CacheKey("GET", res)

\* the sub-calls of getCompleteData() that request() answers from the cache
ServedFromCache(res) ==
    CacheHit(cache, GetKey(res), now, cacheTimeout)

\* the three lookups of getCompleteData(), one after the other
AfterLookups ==
    AfterLookup(AfterLookup(AfterLookup(cache, GetKey("latest"), now, cacheTimeout),
                            GetKey("stats"), now, cacheTimeout),
                GetKey("history"), now, cacheTimeout)

\* the fetches the sub-calls in rs issue, in the order of rs
Fetches(rs) ==
    [i \in 1..Len(rs) |-> Flight(rs[i], "GET", "complete")]

\* getCompleteData(historyLimit): up to await Promise.allSettled([...])
GetCompleteData ==
    /\ complete.st = "idle"
    /\ requestCount + 3 <= 3 * MaxCompletes
    /\ requestCount' = requestCount + 3
    /\ LET hits == SelectSeq(Slots3, LAMBDA r : ServedFromCache(r))
           misses == SelectSeq(Slots3, LAMBDA r : ~ServedFromCache(r))
       IN  /\ cache' = AfterLookups
           /\ flights' = flights \o Fetches(misses)
           /\ complete' =
                [st |-> "waiting",
                 settled |-> [r \in {"latest", "stats", "history"} |->
                                IF ServedFromCache(r)
                                THEN Wrapper(r, cache[GetKey(r)].data) ELSE Pending],
                 order |-> hits]
           /\ apiLast' = ApiStep("getCompleteData", "-", "waiting", NoPayload, Len(misses))
    /\ UNCHANGED <<now, serverVersion, cacheTimeout, timeout, successCount, errorCount,
                   avgResponseTime>>
    /\ UNCHANGED diagnostics

\* Promise.all: done at the first rejection, or when all are fulfilled
PromiseAll(settled) ==
    LET rs == {"latest", "stats", "history"}
    IN  [done |-> \/ \E r \in rs : settled[r].st = "rejected"
                  \/ \A r \in rs : settled[r].st = "fulfilled",
         rejected |-> \E r \in rs : settled[r].st = "rejected"]

\* Promise.allSettled: done when none is pending, never rejected
PromiseAllSettled(settled) ==
    LET rs == {"latest", "stats", "history"}
    IN  [done |-> \A r \in rs : settled[r].st # "pending",
         rejected |-> FALSE]

\* the prefix of an entry of completeData.errors
Label(res) ==
    CASE res = "latest" -> "Latest"
      [] res = "stats" -> "Stats"
      [] OTHER -> "History"

ErrorEntry(settled, res) ==
    <<Label(res), settled[res].reason>>

\* the error list in the order the sub-calls settled
CompleteErrorsByArrival(settled, order) ==
    LET failed == SelectSeq(order, LAMBDA r : settled[r].st = "rejected")
    IN  [i \in 1..Len(failed) |-> ErrorEntry(settled, failed[i])]

\* completeData.errors: the three ifs, one after the other
CompleteErrors(settled, order) ==
    LET failed == SelectSeq(Slots3, LAMBDA r : settled[r].st = "rejected")
    IN  [i \in 1..Len(failed) |-> ErrorEntry(settled, failed[i])]

EmptyObject ==
    Payload("emptyObject", 0)

EmptyList ==
    Payload("emptyList", 0)

\* completeData, with the settlements it was composed from
CompleteData(settled, order) ==
    [latest |-> IF settled.latest.st = "fulfilled" THEN settled.latest.value ELSE NullValue,
     stats |-> IF settled.stats.st = "fulfilled" THEN settled.stats.value ELSE EmptyObject,
     recentHistory |-> IF settled.history.st = "fulfilled" THEN settled.history.value
                       ELSE EmptyList,
     errors |-> CompleteErrors(settled, order),
     settled |-> settled,
     order |-> order]

\* getCompleteData(): after the await
CompleteReturn ==
    /\ complete.st = "waiting"
    /\ PromiseAllSettled(complete.settled).done
    /\ apiLast' = [ApiStep("getCompleteData", "-",
                           IF PromiseAllSettled(complete.settled).rejected
                           THEN "threw" ELSE "returned",
                           NoPayload, 0)
                   EXCEPT !.result = IF PromiseAllSettled(complete.settled).rejected
                                     THEN NoResult
                                     ELSE CompleteData(complete.settled, complete.order)]
    /\ complete' = Idle
    /\ UNCHANGED <<now, serverVersion, cache, cacheTimeout, timeout, requestCount,
                   successCount, errorCount, avgResponseTime, flights>>
    /\ UNCHANGED diagnostics

\* the clock advances in steps of half the default cache duration; an abort
\* timer that is due fires before the clock advances again
LongStep ==
    Cfg("DATA", "CACHE_DURATION").n \div 2

Horizon ==
    MaxTicks * LongStep

Tick ==
    /\ now + LongStep <= Horizon
    /\ \A i \in 1..Len(flights) : now <= flights[i].deadline
    /\ now' = now + LongStep
    /\ UNCHANGED <<serverVersion, cache, cacheTimeout, timeout, requestCount, successCount,
                   errorCount, avgResponseTime, flights, complete, apiLast>>
    /\ UNCHANGED diagnostics

\* the sensor reports: the server's data changes
ServerChange ==
    /\ serverVersion < MaxVersion
    /\ serverVersion' = serverVersion + 1
    /\ UNCHANGED <<now, cache, cacheTimeout, timeout, requestCount, successCount,
                   errorCount, avgResponseTime, flights, complete, apiLast>>
    /\ UNCHANGED diagnostics

DurationSamples ==
    {LongStep, Cfg("DATA", "CACHE_DURATION").n}

\* setCacheDuration(duration)
SetCacheDuration(duration) ==
    /\ cacheTimeout' = duration
    /\ apiLast' = ApiStep("setCacheDuration", "-", "returned", NoPayload, 0)
    /\ UNCHANGED <<now, serverVersion, cache, timeout, requestCount, successCount,
                   errorCount, avgResponseTime, flights, complete>>
    /\ UNCHANGED diagnostics

\* clearCache()
ClearCache ==
    /\ cache' = [k \in DOMAIN cache |-> NoEntry]
    /\ apiLast' = ApiStep("clearCache", "-", "returned", NoPayload, 0)
    /\ UNCHANGED <<now, serverVersion, cacheTimeout, timeout, requestCount, successCount,
                   errorCount, avgResponseTime, flights, complete>>
    /\ UNCHANGED diagnostics

\* what the network and the clock do to the fetches in flight
NetNext ==
    \/ \E i \in 1..Len(flights), shape \in ShapeSamples : RespondSuccess(i, shape)
    \/ \E i \in 1..Len(flights), kind \in StatusFailures : RespondFailure(i, kind)
    \/ \E i \in 1..Len(flights) : NetworkError(i)
    \/ \E i \in 1..Len(flights) : RequestTimeout(i)
    \/ Tick
    \/ ServerChange

\* resources request() is called for directly
Targets ==
    {"latest", "health"}

\* callers of request() and of the cache settings
ApiNext ==
    \/ \E res \in Targets, method \in Methods : Request(res, method)
    \/ \E duration \in DurationSamples : SetCacheDuration(duration)
    \/ ClearCache
    \/ NetNext

\* callers of getCompleteData()
DataNext ==
    \/ GetCompleteData
    \/ CompleteReturn
    \/ NetNext

(***************************************************************************)
(* pingEndpoint() and runDiagnostics().                                    *)
(***************************************************************************)
\* the lookups of the probes of runDiagnostics(), one after the other from
\* the i-th endpoint on
RECURSIVE ProbeLookups(_, _)
ProbeLookups(c, i) ==
    IF i > Len(Endpoints) THEN c
    ELSE ProbeLookups(AfterLookup(c, GetKey(Endpoints[i]), now, cacheTimeout), i + 1)

\* the fetches the probes in es issue, in the order of es
Probes(es) ==
    [i \in 1..Len(es) |-> Flight(es[i], "GET", "diagnostics")]

\* runDiagnostics(): up to await Promise.allSettled(endpointTests); a probe
\* request() answers from the cache makes pingEndpoint return true
RunDiagnostics ==
    /\ diagnostics.st = "idle"
    /\ requestCount + Len(Endpoints) <= Len(Endpoints) * MaxDiagnostics
    /\ requestCount' = requestCount + Len(Endpoints)
    /\ LET misses == SelectSeq(Endpoints, LAMBDA e : ~ServedFromCache(e))
       IN  /\ cache' = ProbeLookups(cache, 1)
           /\ flights' = flights \o Probes(misses)
           /\ diagnostics' =
                [st |-> "waiting",
                 endpoints |-> [e \in EndpointSet |->
                                  IF ServedFromCache(e) THEN "healthy" ELSE "pending"],
                 probes |-> [e \in EndpointSet |->
                               IF ServedFromCache(e) THEN "cached" ELSE "none"]]
           /\ apiLast' = ApiStep("runDiagnostics", "-", "waiting", NoPayload, Len(misses))
    /\ UNCHANGED <<now, serverVersion, cacheTimeout, timeout, successCount, errorCount,
                   avgResponseTime, complete>>

\* diagnostics.overall
Overall(available, total) ==
    IF available = total THEN "healthy"
    ELSE IF available > 0 THEN "degraded"
    ELSE "down"

\* what runDiagnostics() returns: overall, availability, the entry of each
\* endpoint, and how each probe was answered
Diagnosis(d) ==
    LET available == Cardinality({e \in EndpointSet : d.endpoints[e] = "healthy"})
        total == Cardinality(EndpointSet)
    IN  [overall |-> Overall(available, total),
         availability |-> IF total > 0 THEN Num(available * 100, total) ELSE Num(0, 1),
         endpoints |-> d.endpoints,
         probes |-> d.probes]

\* runDiagnostics(): after the await
DiagnosticsReturn ==
    /\ diagnostics.st = "waiting"
    /\ \A e \in EndpointSet : diagnostics.endpoints[e] # "pending"
    /\ apiLast' = [ApiStep("runDiagnostics", "-", "returned", NoPayload, 0)
                   EXCEPT !.result = Diagnosis(diagnostics)]
    /\ diagnostics' = NoDiagnostics
    /\ UNCHANGED <<now, serverVersion, cache, cacheTimeout, timeout, requestCount,
                   successCount, errorCount, avgResponseTime, flights, complete>>

\* runDiagnostics() against a backend that answers a probe or cannot be reached
DiagnosticsNext ==
    \/ RunDiagnostics
    \/ DiagnosticsReturn
    \/ \E i \in 1..Len(flights) : RespondSuccess(i, "data")
    \/ \E i \in 1..Len(flights) : NetworkError(i)
    \/ Tick
(***************************************************************************)
(* APIService: the administrative and read operations, explored together   *)
(* with GET requests.                                                      *)
(***************************************************************************)
\* calls of request() followed between two resets of the metrics
MaxAdminRequests == 2

VARIABLES
    unread              \* per resource: what was in flight at the last clearCache()
                        \* if no GET for the resource has been made since

adminVars ==
    <<unread>>

AdminInit ==
    unread = [r \in Targets |-> "none"]

\* Math.round(x) for a number x >= 0
MathRound(x) ==
    IF x.k # "num" THEN NaN ELSE Num((2 * x.n + x.d) \div (2 * x.d), 1)

\* Math.round(x * 100) / 100
Round2(x) ==
    Mul(MathRound(Mul(x, Num(100, 1))), Num(1, 100))

\* values of Math.min(85 + Math.random() * 10, 100)
HitRateSamples ==
    {Num(85, 1), Num(179, 2)}

\* what getMetrics() returns; rate is the value calculateCacheHitRate() drew
Metrics(rate) ==
    [requestCount |-> requestCount,
     successCount |-> successCount,
     errorCount |-> errorCount,
     successRate |-> IF requestCount > 0
                     THEN Round2(Num(successCount * 100, requestCount))
                     ELSE Num(0, 1),
     avgResponseTime |-> Round2(avgResponseTime),
     cacheSize |-> CacheSize(cache),
     cacheHitRate |-> IF CacheSize(cache) > 0 THEN rate ELSE Num(0, 1)]

\* getMetrics()
GetMetrics(rate) ==
    /\ apiLast' = [ApiStep("getMetrics", "-", "returned", NoPayload, 0)
                   EXCEPT !.result = Metrics(rate)]
    /\ UNCHANGED <<now, serverVersion, cache, cacheTimeout, timeout, requestCount,
                   successCount, errorCount, avgResponseTime, flights, complete,
                   diagnostics>>

\* getConfig()
GetConfig ==
    /\ apiLast' = [ApiStep("getConfig", "-", "returned", NoPayload, 0)
                   EXCEPT !.result = [timeout |-> timeout,
                                      cacheTimeout |-> cacheTimeout,
                                      endpoints |-> Endpoints,
                                      cacheSize |-> CacheSize(cache)]]
    /\ UNCHANGED <<now, serverVersion, cache, cacheTimeout, timeout, requestCount,
                   successCount, errorCount, avgResponseTime, flights, complete,
                   diagnostics>>

\* resetMetrics()
ResetMetrics ==
    /\ requestCount' = 0
    /\ successCount' = 0
    /\ errorCount' = 0
    /\ avgResponseTime' = Num(0, 1)
    /\ apiLast' = ApiStep("resetMetrics", "-", "returned", NoPayload, 0)
    /\ UNCHANGED <<now, serverVersion, cache, cacheTimeout, timeout, flights, complete,
                   diagnostics>>

\* request timeouts the page sets: the default, and one longer than a clock step
TimeoutSamples ==
    {Cfg("TIMEOUTS", "API_REQUEST").n, Cfg("DATA", "CACHE_DURATION").n}

\* setTimeout(timeout)
SetTimeout(t) ==
    /\ timeout' = t
    /\ apiLast' = ApiStep("setTimeout", "-", "returned", NoPayload, 0)
    /\ UNCHANGED <<now, serverVersion, cache, cacheTimeout, requestCount, successCount,
                   errorCount, avgResponseTime, flights, complete, diagnostics>>

\* a GET for resource r is in flight
InFlight(r) ==
    \E i \in 1..Len(flights) : flights[i].res = r /\ flights[i].method = "GET"

\* the administrative operations, GET requests and their answers
AdminNext ==
    \/ \E res \in Targets :
         /\ requestCount < MaxAdminRequests
         /\ flights = <<>>
         /\ Request(res, "GET")
         /\ unread' = [unread EXCEPT ![res] = "none"]
    \/ /\ ClearCache
       /\ unread' = [r \in Targets |-> IF InFlight(r) THEN "racing" ELSE "quiet"]
    \/ \E duration \in DurationSamples : SetCacheDuration(duration) /\ UNCHANGED unread
    \/ \E t \in TimeoutSamples : SetTimeout(t) /\ UNCHANGED unread
    \/ ResetMetrics /\ UNCHANGED unread
    \/ \E rate \in HitRateSamples : GetMetrics(rate) /\ UNCHANGED unread
    \/ GetConfig /\ UNCHANGED unread
    \/ \E i \in 1..Len(flights) : RespondSuccess(i, "data") /\ UNCHANGED unread
    \/ \E i \in 1..Len(flights), kind \in StatusFailures :
         RespondFailure(i, kind) /\ UNCHANGED unread
    \/ \E i \in 1..Len(flights) : RequestTimeout(i) /\ UNCHANGED unread
    \/ Tick /\ UNCHANGED unread
(***************************************************************************)
(* getHistory(limit) (api-service.js): every limit is an address of its    *)
(* own, so the cache of request() grows by one entry per limit asked for.  *)
(***************************************************************************)
\* distinct limits getHistory() is called with
MaxLimits == 52
\* calls of getHistory() followed
MaxHistoryRequests == 54
\* histories fetched before the clock first advances
QuietFills == 48

\* buildApiUrl(BACKEND_CONFIG.ENDPOINTS.HISTORY, { limit })
HistoryUrl(limit) ==
    "history?limit=" \o ToString(limit)

HistoryKey(limit) ==
    CacheKey("GET", HistoryUrl(limit))

HistoryKeys ==
    {HistoryKey(n) : n \in 1..MaxLimits}

\* the client after construction
HistoryInit ==
    ApiInitOver(CacheKeys \cup HistoryKeys)

\* the limits the page asks for next: the smallest one that has no entry and
\* the smallest one whose entry is expired
NextLimits ==
    LET absent  == {n \in 1..MaxLimits : ~cache[HistoryKey(n)].has}
        expired == {n \in 1..MaxLimits : /\ cache[HistoryKey(n)].has
                                         /\ Expired(cache[HistoryKey(n)], now, cacheTimeout)}
        First(S) == {n \in S : \A m \in S : n <= m}
    IN  First(absent) \cup First(expired)

\* getHistory(limit): the request it makes
GetHistory(limit) ==
    /\ requestCount < MaxHistoryRequests
    /\ flights = <<>>
    /\ RequestCall(HistoryUrl(limit), "GET", "request")

\* the page asks for histories one at a time, the server answers, and once
\* the first histories are cached the clock advances between two requests
\* and the cache duration is changed
HistoryNext ==
    \/ \E limit \in NextLimits : GetHistory(limit)
    \/ \E i \in 1..Len(flights) : RespondSuccess(i, "data")
    \/ /\ flights = <<>>
       /\ successCount >= QuietFills
       /\ \/ Tick
          \/ \E duration \in DurationSamples : SetCacheDuration(duration)
(***************************************************************************)
(* LampPageApp: the fallback poll of startPeriodicServices(), which asks   *)
(* the API client for the latest reading while the feed is down.           *)
(***************************************************************************)
\* firings of the health-check interval followed
MaxPolls == 4

\* this.lastValue before any reading
NoValue ==
    -1

VARIABLES
    pageConnected,      \* LampPageApp.isConnected
    lastValue,          \* LampPageApp.lastValue: version of the reading shown
    pollDue,            \* the health-check interval has fired, callback not run
    polls               \* firings of the health-check interval so far

pageVars ==
    <<pageConnected, lastValue, pollDue, polls>>

PageInit ==
    /\ pageConnected = FALSE
    /\ lastValue = NoValue
    /\ pollDue = FALSE
    /\ polls = 0

\* APP_CONFIG.TIMEOUTS.HEALTH_CHECK
PollPeriod ==
    Cfg("TIMEOUTS", "HEALTH_CHECK").n

\* the health-check interval fires, one period after its last firing; an
\* abort timer that is due fires before the clock advances again
PollTimer ==
    /\ polls < MaxPolls
    /\ ~pollDue
    /\ \A i \in 1..Len(flights) : now <= flights[i].deadline
    /\ now' = now + PollPeriod
    /\ polls' = polls + 1
    /\ pollDue' = TRUE
    /\ UNCHANGED <<serverVersion, cache, cacheTimeout, timeout, requestCount, successCount,
                   errorCount, avgResponseTime, flights, complete, diagnostics, apiLast>>
    /\ UNCHANGED <<pageConnected, lastValue>>

\* handleRealtimeData(latest) when latest is there and differs from lastValue
Shown(value, latest) ==
    IF latest.shape = "reading" /\ latest.ver # value THEN latest.ver ELSE value

\* the callback of the health-check interval: up to the await of request()
HealthCheck ==
    /\ pollDue
    /\ pollDue' = FALSE
    /\ IF pageConnected
       THEN UNCHANGED <<apiVars, lastValue>>
       ELSE /\ RequestCall("latest", "GET", "poll")
            /\ lastValue' = IF apiLast'.outcome = "cached"
                            THEN Shown(lastValue, Wrapper("latest", apiLast'.value).value)
                            ELSE lastValue
    /\ UNCHANGED <<pageConnected, polls>>

\* the poll's request is answered: getLatestReading returns the reading
PollAnswered(i) ==
    /\ flights[i].owner = "poll"
    /\ RespondSuccess(i, "data")
    /\ lastValue' = Shown(lastValue, Wrapper("latest", apiLast'.value).value)
    /\ UNCHANGED <<pageConnected, pollDue, polls>>

\* the poll's request fails: the callback catches and logs
PollFailed(i) ==
    /\ flights[i].owner = "poll"
    /\ NetworkError(i) \/ RequestTimeout(i)
    /\ UNCHANGED pageVars

\* the page's onConnected and onDisconnected listeners
HandleWebSocketConnected ==
    /\ ~pageConnected
    /\ pageConnected' = TRUE
    /\ UNCHANGED <<apiVars, lastValue, pollDue, polls>>

HandleWebSocketDisconnected ==
    /\ pageConnected
    /\ pageConnected' = FALSE
    /\ UNCHANGED <<apiVars, lastValue, pollDue, polls>>

PageNext ==
    \/ PollTimer
    \/ HealthCheck
    \/ \E i \in 1..Len(flights) : PollAnswered(i)
    \/ \E i \in 1..Len(flights) : PollFailed(i)
    \/ HandleWebSocketConnected
    \/ HandleWebSocketDisconnected
    \/ ServerChange /\ UNCHANGED pageVars
(***************************************************************************)
(* The sensor sketch: loop() samples the photoresistor and sends the       *)
(* reading over UDP when shouldSendData() lets it through.                 *)
(***************************************************************************)
\* iterations of loop() followed
MaxLoops == 4

\* an unsigned long (32 bits) as two 16-bit halves
Half == 65536

ULong(hi, lo) ==
    [hi |-> hi, lo |-> lo]

\* a + d in unsigned long arithmetic, for 0 <= d < Half
AddMs(a, d) ==
    ULong((a.hi + (a.lo + d) \div Half) % Half, (a.lo + d) % Half)

\* a - b in unsigned long arithmetic
SubMs(a, b) ==
    LET borrow == IF a.lo < b.lo THEN 1 ELSE 0
    IN  ULong((a.hi - b.hi - borrow + 2 * Half) % Half, (a.lo - b.lo + Half) % Half)

\* a < n for an unsigned long a and 0 <= n < Half
Below(a, n) ==
    a.hi = 0 /\ a.lo < n

\* abs(x)
Abs(x) ==
    IF x < 0 THEN -x ELSE x

THRESHOLD == 5
MIN_SEND_INTERVAL == 100
\* lastSentValue before anything was sent
NothingSent == -1

VARIABLES
    millis,             \* millis() at the last reading of the clock
    lastSentValue,      \* lastSentValue
    lastSendTime,       \* lastSendTime
    sinceSend,          \* milliseconds since the last packet was sent
    loops,              \* iterations of loop() so far
    sketchLast          \* what the last iteration did

sketchVars ==
    <<millis, lastSentValue, lastSendTime, sinceSend, loops, sketchLast>>

\* values of analogRead(A0), within 0..1023
LdrSamples ==
    {0, 4, 5, 9, 1023}

\* millis() when loop() is first followed: at start, or shortly before the
\* counter wraps with no address set so far
BootTimes ==
    {ULong(0, 0), ULong(Half - 1, Half - 150)}

\* milliseconds between two readings of millis() in successive iterations:
\* delay(100) and the work of the iteration, millis() counting in steps of
\* 1.024 ms
LoopTimes ==
    {99, 100, 137}

\* the sketch when loop() is first followed, millis() being t
SketchInitAt(t) ==
    /\ millis = t
    /\ lastSentValue = NothingSent
    /\ lastSendTime = ULong(0, 0)
    /\ sinceSend = 0
    /\ loops = 0
    /\ sketchLast = [op |-> "setup", ldr |-> 0, should |-> FALSE, sent |-> FALSE,
                     prev |-> NothingSent]

SketchInit ==
    SketchInitAt(ULong(0, 0))

\* a filter that looks at the interval only
shouldSendDataAnyValue(currentValue, currentTime, sentValue, sendTime) ==
    IF sentValue = NothingSent THEN TRUE
    ELSE ~Below(SubMs(currentTime, sendTime), MIN_SEND_INTERVAL)

\* shouldSendData(currentValue, currentTime), with the two globals it reads
shouldSendData(currentValue, currentTime, sentValue, sendTime) ==
    IF sentValue = NothingSent THEN TRUE
    ELSE IF Below(SubMs(currentTime, sendTime), MIN_SEND_INTERVAL) THEN FALSE
    ELSE Abs(currentValue - sentValue) >= THRESHOLD

\* one iteration of loop(): the reading ldr, d ms after the clock was last
\* read, and whether udp.setRemoteAddress() succeeds
Loop(ldr, d, addressed) ==
    /\ loops < MaxLoops
    /\ loops' = loops + 1
    /\ LET currentTime == AddMs(millis, d)
           should == shouldSendData(ldr, currentTime, lastSentValue, lastSendTime)
           packet == should /\ addressed
       IN  /\ millis' = currentTime
           /\ lastSentValue' = IF packet THEN ldr ELSE lastSentValue
           /\ lastSendTime' = IF packet THEN currentTime ELSE lastSendTime
           /\ sinceSend' = IF packet THEN 0 ELSE sinceSend + d
           /\ sketchLast' = [op |-> "loop", ldr |-> ldr, should |-> should, sent |-> packet,
                             prev |-> lastSentValue]

SketchNext ==
    \E ldr \in LdrSamples, d \in LoopTimes, addressed \in BOOLEAN : Loop(ldr, d, addressed)

(***************************************************************************)
(* Specifications.                                                         *)
(***************************************************************************)
vars ==
    <<feedVars, msgVars, apiVars, pageVars, adminVars, sketchVars>>

Init ==
    /\ FeedInit
    /\ MsgInit
    /\ ApiInit
    /\ PageInit
    /\ AdminInit
    /\ SketchInit

\* the connection lifecycle of the feed client
Next ==
    (FeedStep(FeedNext) \/ Send \/ Destroy \/ PingTick) /\ UNCHANGED <<apiVars, pageVars, adminVars, sketchVars>>

Spec ==
    Init /\ [][Next]_vars

\* frames and listeners of the feed client
NextMsg ==
    (MsgNext \/ LinkNext \/ Destroy) /\ UNCHANGED <<apiVars, pageVars, adminVars, sketchVars>>

SpecMsg ==
    Init /\ [][NextMsg]_vars

\* request(), its cache and its metrics
NextApi ==
    ApiNext /\ UNCHANGED <<feedVars, msgVars, pageVars, adminVars, sketchVars>>

SpecApi ==
    Init /\ [][NextApi]_vars

\* getCompleteData() and its three sub-calls
NextData ==
    DataNext /\ UNCHANGED <<feedVars, msgVars, pageVars, adminVars, sketchVars>>

SpecData ==
    Init /\ [][NextData]_vars

\* runDiagnostics() and its probes
NextDiagnostics ==
    DiagnosticsNext /\ UNCHANGED <<feedVars, msgVars, pageVars, adminVars, sketchVars>>

SpecDiagnostics ==
    Init /\ [][NextDiagnostics]_vars

\* extractLDRValue on its own
NextDecode ==
    DecodeNext /\ UNCHANGED <<apiVars, pageVars, adminVars, sketchVars>>

SpecDecode ==
    Init /\ [][NextDecode]_vars

\* the lamp page's fallback poll
NextPoll ==
    PageNext /\ UNCHANGED <<feedVars, msgVars, adminVars, sketchVars>>

SpecPoll ==
    Init /\ [][NextPoll]_vars

\* the timers of the feed client: the browser runs a timer that is due
TimerStep ==
    FeedStep(ReconnectTimerFire \/ LeakedTimerFire \/ ForceReconnectResume)
      /\ UNCHANGED <<apiVars, pageVars, adminVars, sketchVars>>

\* the events of the transports: a transport that is connecting opens or
\* fails, one that is open or closing ends
TransportStep ==
    FeedStep(\/ \E s \in Slots : TransportOpen(s)
             \/ \E s \in Slots : TransportFail(s)
             \/ \E s \in Slots, code \in CleanCodes : TransportClose(s, code))
      /\ UNCHANGED <<apiVars, pageVars, adminVars, sketchVars>>

\* the connection lifecycle with timers and transport events scheduled fairly
SpecRetry ==
    Init /\ [][Next]_vars /\ WF_vars(TimerStep) /\ WF_vars(TransportStep)

\* the administrative operations of the API client
NextAdmin ==
    AdminNext /\ UNCHANGED <<feedVars, msgVars, pageVars, sketchVars>>

SpecAdmin ==
    Init /\ [][NextAdmin]_vars

\* getHistory() over many limits
InitHistory ==
    /\ FeedInit
    /\ MsgInit
    /\ HistoryInit
    /\ PageInit
    /\ AdminInit
    /\ SketchInit

NextHistory ==
    HistoryNext /\ UNCHANGED <<feedVars, msgVars, pageVars, adminVars, sketchVars>>

SpecHistory ==
    InitHistory /\ [][NextHistory]_vars

\* the sensor sketch
InitSketch ==
    /\ FeedInit
    /\ MsgInit
    /\ ApiInit
    /\ PageInit
    /\ AdminInit
    /\ \E t \in BootTimes : SketchInitAt(t)

NextSketch ==
    SketchNext /\ UNCHANGED <<feedVars, msgVars, apiVars, pageVars, adminVars>>

SpecSketch ==
    InitSketch /\ [][NextSketch]_vars
(***************************************************************************)
(* What a step emitted, and the timers left pending.                       *)
(***************************************************************************)
\* number of events of type ev and kind `kind` the last step emitted
Emitted(ev, kind) ==
    Cardinality({i \in 1..Len(emitted) : emitted[i].ev = ev /\ emitted[i].kind = kind})

\* a reconnect timer is pending, with or without a handle
TimerPending ==
    reconnectTimeout = "pending" \/ leakedTimers > 0

\* the delay the specification states for attempt n: min(3000 * 1.5^(n-1), 30000)
StatedDelay(n) ==
    MathMin(Mul(Num(3000, 1), MathPow(Num(3, 2), n - 1)), Num(30000, 1))

(***************************************************************************)
(* C1.  With the counter at the maximum (10 abnormal closes have each      *)
(* scheduled a reconnect), the next abnormal close emits exactly one       *)
(* max_reconnects_reached error, schedules no timer, and no reconnect      *)
(* timer is left to call connect() afterwards.                             *)
(***************************************************************************)
C1_ExhaustedStops ==
    ( /\ last.op = "handleClose"
      /\ ShouldReconnect(last.code, last.clean)
      /\ reconnectAttempts = maxReconnectAttempts
      /\ Emitted("onReconnecting", "scheduled") = 0 )
    => /\ Emitted("onError", "max_reconnects_reached") = 1
       /\ ~TimerPending

(***************************************************************************)
(* C2.  The close event of a transport that disconnect() closed never      *)
(* schedules a reconnect: no Reconnecting event, no reconnect timer, the   *)
(* client is left disconnected with nothing pending that calls connect().  *)
(***************************************************************************)
C2_DisconnectNeverReconnects ==
    (last.op = "handleClose" /\ last.pre \in {"CLOSING", "FAILING"})
    => /\ Emitted("onReconnecting", "scheduled") = 0
       /\ ~TimerPending
       /\ ~isConnected

(***************************************************************************)
(* C3 as stated.  While the counter is below the maximum, every close      *)
(* event whose code is not 1000 schedules a reconnect.                     *)
(***************************************************************************)
C3_AnyNon1000CloseReconnects ==
    [][ ( /\ last'.op = "handleClose"
          /\ last'.code # 1000
          /\ reconnectAttempts < maxReconnectAttempts )
        => /\ Emitted("onReconnecting", "scheduled")' = 1
           /\ reconnectTimeout' = "pending"
           /\ reconnectAttempts' = reconnectAttempts + 1 ]_vars

(***************************************************************************)
(* C3 amended.  While the counter is below the maximum, every close event  *)
(* that is not clean and whose code is not 1000 schedules a reconnect: the *)
(* counter goes up by one, one Reconnecting event carrying the new counter *)
(* is emitted, and a reconnect timer is armed.                             *)
(***************************************************************************)
C3_AbnormalCloseReconnects ==
    [][ ( /\ last'.op = "handleClose"
          /\ ~last'.clean
          /\ last'.code # 1000
          /\ reconnectAttempts < maxReconnectAttempts )
        => /\ Emitted("onReconnecting", "scheduled")' = 1
           /\ \E i \in 1..Len(emitted') :
                /\ emitted'[i].ev = "onReconnecting"
                /\ emitted'[i].attempt = reconnectAttempts + 1
                /\ emitted'[i].maxAttempts = maxReconnectAttempts
           /\ reconnectTimeout' = "pending"
           /\ reconnectAttempts' = reconnectAttempts + 1 ]_vars

C3_Witness ==
    /\ last.op = "handleClose"
    /\ ~last.clean
    /\ last.code = 1006
    /\ Emitted("onReconnecting", "scheduled") = 1
    /\ reconnectTimeout = "pending"
    /\ reconnectAttempts = 3

(***************************************************************************)
(* C4.  Every Reconnecting event of a scheduled attempt n carries the      *)
(* delay min(3000 * 1.5^(n-1), 30000).                                     *)
(***************************************************************************)
C4_DelayIsBackoff ==
    \A i \in 1..Len(emitted) :
        (emitted[i].ev = "onReconnecting" /\ emitted[i].kind = "scheduled")
        => emitted[i].delay = StatedDelay(emitted[i].attempt)

(***************************************************************************)
(* C9.  connect() called while isConnected returns true and changes        *)
(* nothing: no transport, no event, counter, timers and metrics as before. *)
(***************************************************************************)
C9_ConnectWhenConnectedIsNoop ==
    [][ (last'.op = "connect" /\ isConnected)
        => /\ last'.res = "true"
           /\ emitted' = <<>>
           /\ UNCHANGED <<socks, ws, isConnected, reconnectAttempts, reconnectTimeout,
                          leakedTimers, pingInterval, leakedPings, forcePending,
                          totalReconnects>> ]_vars

C9_Witness ==
    /\ last.op = "connect"
    /\ last.res = "true"
    /\ isConnected
    /\ ws \in Slots
    /\ socks[ws].st = "OPEN"

(***************************************************************************)
(* C10.  A connection attempt whose connect() was rejected by the timeout  *)
(* never makes the client connected and never schedules a reconnect.       *)
(***************************************************************************)
C10_TimedOutAttemptIsDead ==
    (last.op \in {"handleOpen", "handleClose"} /\ last.res = "timeout")
    => /\ ~isConnected
       /\ Emitted("onReconnecting", "scheduled") = 0

\* number of calls of listener l among the calls a step made
Calls(calls, l) ==
    Cardinality({i \in 1..Len(calls) : calls[i].l = l})

(***************************************************************************)
(* C5.  For every ldr_update frame handled, each listener registered for   *)
(* onData is called exactly once with the value decoded from the frame     *)
(* (frames are handled one at a time, in arrival order).                   *)
(***************************************************************************)
C5_EveryListenerGetsEveryFrame ==
    [][ (last'.op = "handleMessage" /\ last'.res = "ldr_update")
        => \A i \in 1..Len(callbacks) :
              /\ Calls(invoked', callbacks[i]) = 1
              /\ \A j \in 1..Len(invoked') : invoked'[j].value = emitted'[1].value ]_vars

\* a step that is a call of request(): the only steps that count one request
RequestCalled ==
    /\ requestCount' = requestCount + 1
    /\ apiLast'.op = "request"

\* a step in which a fetch issued by request() ends with a payload
FetchReturned ==
    /\ Len(flights') < Len(flights)
    /\ apiLast'.op \in {"request", "subcall"}
    /\ apiLast'.outcome = "returned"

\* C6: a GET request whose key has a cached entry younger than the TTL returns
\* that payload and issues no network call; the same request once the entry is
\* older than the TTL issues exactly one network call, and when that call
\* succeeds the entry is replaced by the new payload, stamped with the time of
\* the response
C6_CachedGetSkipsNetwork ==
    [][ /\ (RequestCalled /\ apiLast'.method = "GET")
            => LET entry == cache[GetKey(apiLast'.res)]
                   age == now - entry.timestamp
               IN  /\ (entry.has /\ age < cacheTimeout)
                        => /\ apiLast'.outcome = "cached"
                           /\ apiLast'.value = entry.data
                           /\ flights' = flights
                           /\ cache' = cache
                   /\ (entry.has /\ age > cacheTimeout)
                        => /\ apiLast'.outcome = "fetching"
                           /\ Len(flights') = Len(flights) + 1
                           /\ SubSeq(flights', 1, Len(flights)) = flights
                           /\ flights'[Len(flights')].res = apiLast'.res
                           /\ flights'[Len(flights')].method = "GET"
        /\ (FetchReturned /\ apiLast'.method = "GET")
            => cache'[GetKey(apiLast'.res)] =
                  [has |-> TRUE, data |-> apiLast'.value, timestamp |-> now] ]_vars

\* a GET found its entry expired, fetched, and the fetch is in flight
C6_Witness ==
    /\ apiLast.op = "request"
    /\ apiLast.method = "GET"
    /\ apiLast.expired
    /\ apiLast.outcome = "fetching"
    /\ Len(flights) > 0
    /\ successCount > 0

\* C7: getCompleteData() ends only after its three sub-calls have settled, and
\* it ends by returning a result, whatever the sub-calls did
C7_CompleteNeverFails ==
    [][ (complete.st = "waiting" /\ complete'.st = "idle")
            => /\ apiLast'.op = "getCompleteData"
               /\ apiLast'.outcome = "returned"
               /\ \A r \in {"latest", "stats", "history"} :
                      complete.settled[r].st \in {"fulfilled", "rejected"}
               /\ \A i \in 1..Len(flights) : flights[i].owner # "complete" ]_vars

\* getCompleteData() returned although all three sub-calls failed
C7_Witness ==
    /\ apiLast.op = "getCompleteData"
    /\ apiLast.outcome = "returned"
    /\ \A r \in {"latest", "stats", "history"} : apiLast.result.settled[r].st = "rejected"

\* position of a label in the fixed order Latest, Stats, History
Rank(label) ==
    CASE label = "Latest" -> 1
      [] label = "Stats" -> 2
      [] OTHER -> 3

\* C8: in the result of getCompleteData() each slot holds the value of its
\* sub-call when that sub-call succeeded and the fallback otherwise (null, the
\* empty object, the empty list); the error list has one entry per failed
\* sub-call and no other, in the order latest, stats, history whatever the
\* order in which the sub-calls settled
C8_SlotsAndErrors ==
    [][ (complete.st = "waiting" /\ complete'.st = "idle")
            => LET s == complete.settled
                   r == apiLast'.result
                   failed == {x \in {"latest", "stats", "history"} : s[x].st = "rejected"}
               IN  /\ r.latest = IF "latest" \in failed THEN NullValue ELSE s.latest.value
                   /\ r.stats = IF "stats" \in failed THEN EmptyObject ELSE s.stats.value
                   /\ r.recentHistory = IF "history" \in failed THEN EmptyList
                                        ELSE s.history.value
                   /\ Len(r.errors) = Cardinality(failed)
                   /\ \A x \in failed : \E i \in 1..Len(r.errors) :
                          r.errors[i] = <<Label(x), s[x].reason>>
                   /\ \A i, j \in 1..Len(r.errors) :
                          i < j => Rank(r.errors[i][1]) < Rank(r.errors[j][1]) ]_vars

\* history failed first and latest failed last, stats succeeded: the list
\* names latest before history
C8_Witness ==
    /\ apiLast.op = "getCompleteData"
    /\ apiLast.outcome = "returned"
    /\ apiLast.result.order = <<"history", "stats", "latest">>
    /\ apiLast.result.settled.stats.st = "fulfilled"
    /\ Len(apiLast.result.errors) = 2
    /\ apiLast.result.errors[1][1] = "Latest"
    /\ apiLast.result.errors[2][1] = "History"

(***************************************************************************)
(* C11.  When disconnect() has returned, no reconnect timer is pending and *)
(* no liveness-probe timer is running, whatever the state it was called in.*)
(***************************************************************************)
C11_DisconnectStopsTimers ==
    last.op = "disconnect"
    => /\ ~TimerPending
       /\ pingInterval = "null"
       /\ leakedPings = 0

(***************************************************************************)
(* C12.  forceReconnect() called while connected closes the transport and, *)
(* after its wait, calls connect() with the counter at 0, and that call    *)
(* opens a new transport: it never returns true with no new transport.     *)
(***************************************************************************)
C12_ForceReconnectOpensNewTransport ==
    last.op = "forceReconnectResume"
    => /\ reconnectAttempts = 0
       /\ last.res = "pending"
       /\ ws \in Slots
       /\ socks[ws].st = "CONNECTING"

\* a transport that is neither closed nor closing
LiveTransports ==
    {s \in Slots : socks[s].st \in {"CONNECTING", "OPEN"}}

(***************************************************************************)
(* C13.  Once destroy() has been called, in every later state no probe     *)
(* timer and no reconnect timer is active, every transport is closed or    *)
(* closing, and no listener is invoked.                                    *)
(***************************************************************************)
C13_DestroyReleasesEverything ==
    ~Alive
    => /\ ~TimerPending
       /\ pingInterval = "null"
       /\ leakedPings = 0
       /\ LiveTransports = {}
       /\ invoked = <<>>

C15_ThrowingListenerIsIsolated ==
    [][ ( /\ last'.op = "handleMessage"
          /\ emitted' # <<>>
          /\ emitted'[1].ev = "onData"
          /\ \E i \in 1..Len(callbacks) : Behaviour(callbacks[i]) = "throws"
          /\ \A i \in 1..Len(callbacks) : Behaviour(callbacks[i]) # "offSelf" )
        => /\ Len(invoked') = Len(callbacks)
           /\ \A i \in 1..Len(callbacks) : invoked'[i].l = callbacks[i]
           /\ last'.res \in {"ldr_update", "system_status"}
           /\ UNCHANGED <<callbacks, socks, ws, isConnected, reconnectAttempts,
                          reconnectTimeout, pingInterval>> ]_vars

\* the listener that throws was called first, the one after it was called too
C15_Witness ==
    /\ last.op = "handleMessage"
    /\ callbacks = <<2, 1>>
    /\ Len(invoked) = 2
    /\ invoked[1].l = 2
    /\ invoked[2].l = 1
    /\ isConnected

(***************************************************************************)
(* C16.  Every call of request() counts one request and, once complete,    *)
(* one success (a payload returned, from the network or from the cache)    *)
(* or one error: with no call in flight, requestCount = successCount +     *)
(* errorCount.                                                             *)
(***************************************************************************)
C16_CountsAddUp ==
    flights = <<>> => requestCount = successCount + errorCount

\* a step in which a fetch issued by request() ends with an error
FetchThrew ==
    /\ Len(flights') < Len(flights)
    /\ apiLast'.op \in {"request", "subcall"}
    /\ apiLast'.outcome = "threw"

Reached ==
    {e \in EndpointSet : diagnostics.probes[e] = "answered"}

(***************************************************************************)
(* C18.  runDiagnostics() returns after it has probed every configured     *)
(* endpoint; overall is healthy iff every endpoint was reached, down iff   *)
(* none was, degraded otherwise, and availability is 100 * reached / total.*)
(***************************************************************************)
C18_DiagnosticsClassifies ==
    [][ (diagnostics.st = "waiting" /\ diagnostics'.st = "idle")
        => LET r == apiLast'.result
               total == Cardinality(EndpointSet)
           IN  /\ apiLast'.outcome = "returned"
               /\ \A e \in EndpointSet : diagnostics.probes[e] \in {"answered", "failed"}
               /\ r.overall = "healthy" <=> Reached = EndpointSet
               /\ r.overall = "down" <=> Reached = {}
               /\ r.overall = "degraded" <=> (Reached # {} /\ Reached # EndpointSet)
               /\ r.availability = Num(100 * Cardinality(Reached), total) ]_vars

\* the digits that follow the first LDR= of s that digits follow, as a number
DigitsAfterMarker(s) ==
    LET i == CHOOSE m \in MarkerMatches(s) : \A o \in MarkerMatches(s) : m <= o
    IN  Num(DigitsValue(DigitRun(s, i + Len(Marker))), 1)

\* the three examples of the specification
ExamplesDecode(raw, v) ==
    /\ raw = StringV(<<"L", "D", "R", "=", "7", "4", "2">>) => v = Num(742, 1)
    /\ raw = StringV(<<"9", "9", "9">>) => v = Num(999, 1)
    /\ raw = StringV(<<"a", "b", "c">>) => v = Num(0, 1)

(***************************************************************************)
(* C19.  extractLDRValue gives an integer for every raw value:   *)
(* the digits after LDR= for a string with LDR= followed by digits, the    *)
(* integer it parses to for any other string, 0 when there is no number.   *)
(***************************************************************************)
C19_DecodesToInteger ==
    last.op = "extractLDRValue"
    => LET raw == last.res.raw
           v == last.res.value
       IN  /\ v.k = "num" /\ v.d = 1
           /\ ExamplesDecode(raw, v)
           /\ (raw.t = "string" /\ MarkerMatches(raw.s) # {}) => v = DigitsAfterMarker(raw.s)
           /\ (raw.t = "string" /\ MarkerMatches(raw.s) = {}) => v = OrZero(ParseInt(raw.s))
           /\ raw.t = "null" => v = Num(0, 1)

(***************************************************************************)
(* C20.  When max_reconnects_reached is emitted the client is in a valid   *)
(* Disconnected state with nothing pending: not connected, no reconnect    *)
(* timer, no probe interval, no transport connecting or open.              *)
(***************************************************************************)
C20_ExhaustedIsDisconnected ==
    ( /\ last.op = "handleClose"
      /\ Emitted("onError", "max_reconnects_reached") = 1 )
    => /\ ~isConnected
       /\ reconnectTimeout # "pending"
       /\ leakedTimers = 0
       /\ pingInterval = "null"
       /\ leakedPings = 0
       /\ LiveTransports = {}

\* the poll's callback got a reading, from the cache or from the server
PollGotReading ==
    \/ pollDue /\ ~pollDue' /\ ~pageConnected /\ apiLast'.outcome = "cached"
    \/ Len(flights') < Len(flights) /\ apiLast'.outcome = "returned"

(***************************************************************************)
(* C21.  While the feed is disconnected every fallback poll that gets a    *)
(* reading gets the server's current latest reading, and the page shows    *)
(* it: a change on the server is on the page after one polling period.     *)
(***************************************************************************)
C21_PollKeepsDataFresh ==
    [][PollGotReading => /\ apiLast'.value.ver = serverVersion'
                         /\ lastValue' = serverVersion']_vars

\* handleClose has just scheduled an automatic reconnect
ReconnectScheduled ==
    last.op = "handleClose" /\ Emitted("onReconnecting", "scheduled") = 1

\* the page has taken the connection in hand: forceReconnect() or destroy()
PageTookOver ==
    last.op \in {"forceReconnect", "forceReconnectResume", "destroy"} \/ ~Alive

(***************************************************************************)
(* C22.  Once an abnormal close has scheduled an automatic reconnect, with *)
(* timers and transport events scheduled fairly, the client becomes        *)
(* Connected or emits max_reconnects_reached, unless the page restarts or  *)
(* destroys the client first.                                              *)
(***************************************************************************)
C22_RetryMakesProgress ==
    ReconnectScheduled ~> \/ isConnected
                          \/ Emitted("onError", "max_reconnects_reached") = 1
                          \/ PageTookOver

\* a transport opened by the reconnect timer has connected the client
C22_Witness ==
    /\ last.op = "handleOpen"
    /\ isConnected
    /\ reconnectTimeout = "stale"
    /\ totalReconnects >= 1
    /\ Alive

\* the step is a call of the administrative operation op (the clock's step is
\* the only one that leaves the record of the last call alone)
Called(op) ==
    apiLast'.op = op /\ now' = now

\* no fetch is issued or dropped, and the server and the clock are not touched
NoNetworkCall ==
    apiLast'.net = 0 /\ UNCHANGED <<flights, serverVersion, now, complete, diagnostics>>

MetricsUnchanged ==
    UNCHANGED <<requestCount, successCount, errorCount, avgResponseTime>>

\* each administrative operation changes its own target and nothing else
AdminFrame ==
    /\ Called("clearCache")
         => /\ NoNetworkCall /\ MetricsUnchanged /\ UNCHANGED <<cacheTimeout, timeout>>
            /\ CacheSize(cache') = 0
    /\ Called("setCacheDuration")
         => NoNetworkCall /\ MetricsUnchanged /\ UNCHANGED <<cache, timeout>>
    /\ Called("setTimeout")
         => NoNetworkCall /\ MetricsUnchanged /\ UNCHANGED <<cache, cacheTimeout>>
    /\ Called("resetMetrics")
         => /\ NoNetworkCall /\ UNCHANGED <<cache, cacheTimeout, timeout>>
            /\ requestCount' = 0 /\ successCount' = 0 /\ errorCount' = 0
            /\ avgResponseTime' = Num(0, 1)
    /\ (Called("getMetrics") \/ Called("getConfig"))
         => /\ NoNetworkCall /\ MetricsUnchanged
            /\ UNCHANGED <<cache, cacheTimeout, timeout>>

\* the step is the first GET for resource r since clearCache()
FirstGetSinceClear(r) ==
    /\ unread[r] # "none"
    /\ requestCount' = requestCount + 1
    /\ apiLast'.op = "request" /\ apiLast'.res = r

(***************************************************************************)
(* C23.  The six administrative operations issue no network call and each  *)
(* changes only its own target; the first GET for any resource after       *)
(* clearCache() issues a network call.                                     *)
(***************************************************************************)
C23_AdminOperationsFrame ==
    [][/\ AdminFrame
       /\ \A r \in Targets : FirstGetSinceClear(r) => apiLast'.net = 1]_vars

\* the step handles the open event of a transport
OpenHandled ==
    /\ last'.op = "handleOpen"
    /\ Len(socks') = Len(socks)
    /\ \E s \in Slots : socks[s].st = "CONNECTING" /\ socks'[s].st = "OPEN"

(***************************************************************************)
(* C24.  Handling a transport's open event leaves the client Connected,    *)
(* the attempt counter at 0 and a probe timer running, and emits exactly   *)
(* one event, the Connected event.                                         *)
(***************************************************************************)
C24_OpenConnects ==
    [][OpenHandled => /\ isConnected'
                      /\ reconnectAttempts' = 0
                      /\ pingInterval' = "active"
                      /\ emitted' = <<EvConnected>>]_vars

\* an open event handled after failed attempts had raised the counter
C24_Witness ==
    /\ last.op = "handleOpen"
    /\ last.pre = "CONNECTING"
    /\ totalReconnects >= 2
    /\ reconnectAttempts = 0
    /\ isConnected
    /\ pingInterval = "active"
    /\ Alive

(***************************************************************************)
(* C25.  In every state in which the client is not Connected no probe      *)
(* timer is active, and a ping frame is only ever sent while Connected.    *)
(***************************************************************************)
C25_NoProbeUnlessConnected ==
    /\ ~isConnected => (pingInterval = "null" /\ leakedPings = 0)
    /\ (\E i \in 1..Len(sent) : sent[i].type = "ping") => isConnected

\* the step handles a frame that parses as JSON
JsonFrameHandled ==
    last'.op = "handleMessage" /\ last'.res # "invalid"

\* the frame handled leaves the connection as it was
ConnectionUntouched ==
    UNCHANGED <<socks, ws, isConnected, reconnectAttempts, reconnectTimeout, pingInterval>>

\* the events of the three known types
RoutedByType ==
    /\ last'.res = "ldr_update"
         => /\ Len(emitted') = 1
            /\ emitted'[1].ev = "onData" /\ emitted'[1].kind = "ldr_update"
    /\ last'.res = "system_status"
         => emitted' = <<EvData("system_status", StatusV)>>
    /\ last'.res = "pong" => emitted' = <<>>

(***************************************************************************)
(* C26.  A frame that parses as JSON has exactly one outcome by its type:  *)
(* ldr_update one data event, system_status one status event on the data   *)
(* channel, pong no event, anything else no event; the connection state    *)
(* and the attempt counter are unchanged.                                  *)
(***************************************************************************)
C26_FramesRoutedByType ==
    [][JsonFrameHandled
         => /\ RoutedByType
            /\ last'.res \notin {"ldr_update", "system_status", "pong"} => emitted' = <<>>
            /\ ConnectionUntouched]_vars

(***************************************************************************)
(* C26 amended.  The same for every frame that is a JSON object; the JSON  *)
(* text null, which parses but has no type to read, is counted as a        *)
(* message and gives one Error event and no data event.                    *)
(***************************************************************************)
C26_ObjectFramesRoutedByType ==
    [][JsonFrameHandled
         => /\ RoutedByType
            /\ last'.res = "other" => emitted' = <<>>
            /\ last'.res = "null"
                 => /\ emitted' = <<EvTypeError>>
                    /\ invoked' = <<>>
                    /\ Alive => messagesReceived' = messagesReceived + 1
            /\ ConnectionUntouched]_vars

\* a frame of an unknown type was handled and nothing was emitted
C26_Witness ==
    /\ last.op = "handleMessage"
    /\ last.res = "other"
    /\ emitted = <<>>
    /\ messagesReceived = 2
    /\ Len(callbacks) >= 1

\* the step handles a frame that is not valid JSON
InvalidFrameHandled ==
    last'.op = "handleMessage" /\ last'.res = "invalid"

\* the step delivers an ldr_update to every registered listener that the
\* dispatch reaches, beginning with the first
DeliversUpdate ==
    /\ Emitted("onData", "ldr_update")' = 1
    /\ (Alive /\ callbacks # <<>>)
         => (invoked' # <<>> /\ invoked'[1].l = callbacks[1])

(***************************************************************************)
(* C27.  A frame that is not valid JSON gives exactly one Error event and  *)
(* no data event, calls no data listener, leaves the client Connected and  *)
(* its listeners registered, and the frames that follow are delivered.     *)
(***************************************************************************)
C27_InvalidFrameIsReported ==
    [][/\ InvalidFrameHandled
            => /\ Len(emitted') = 1
               /\ emitted'[1].ev = "onError"
               /\ invoked' = <<>>
               /\ UNCHANGED <<socks, ws, isConnected, reconnectAttempts, reconnectTimeout,
                              pingInterval, callbacks, channels>>
       /\ ( /\ last.op = "handleMessage" /\ last.res = "invalid"
            /\ last'.op = "handleMessage" /\ last'.res = "ldr_update" )
            => DeliversUpdate]_vars

\* an invalid frame was handled on an open connection with a listener registered
C27_Witness ==
    /\ last.op = "handleMessage"
    /\ last.res = "invalid"
    /\ isConnected
    /\ \E s \in Slots : socks[s].st = "OPEN"
    /\ callbacks # <<>>
    /\ Emitted("onError", "parse_error") = 1

\* the Reconnecting events the step emitted
ReconnectingEvents ==
    SelectSeq(emitted, LAMBDA e : e.ev = "onReconnecting")

(***************************************************************************)
(* C28.  A Reconnecting event is emitted only when an automatic reconnect  *)
(* is scheduled, one per scheduled attempt, carrying attempt, maxAttempts   *)
(* and delay with 1 <= attempt <= maxAttempts; connect(), called by the     *)
(* page or by the reconnect timer, emits none.                             *)
(***************************************************************************)
C28_ReconnectingOnlyWhenScheduled ==
    /\ \A i \in 1..Len(ReconnectingEvents) :
         /\ ReconnectingEvents[i].kind = "scheduled"
         /\ ReconnectingEvents[i].attempt \in 1..maxReconnectAttempts
         /\ ReconnectingEvents[i].maxAttempts = maxReconnectAttempts
         /\ ReconnectingEvents[i].delay # Undefined
    /\ Len(ReconnectingEvents) <= 1
    /\ Len(ReconnectingEvents) = 1 => last.op = "handleClose"
    /\ last.op \in {"connect", "reconnectTimer", "leakedTimer"}
         => ReconnectingEvents = <<>>

(***************************************************************************)
(* C29.  Only GET requests use the cache: a request with another method    *)
(* never returns a cached payload and leaves the cache as it is, when it   *)
(* is called and when it is answered; a successful GET stores the payload  *)
(* it returns under the key of its method and url.                         *)
(***************************************************************************)
C29_OnlyGetUsesCache ==
    [][/\ (RequestCalled /\ apiLast'.method # "GET")
            => /\ apiLast'.outcome = "fetching"
               /\ apiLast'.net = 1
               /\ cache' = cache
       /\ ( /\ Len(flights') < Len(flights)
            /\ apiLast'.op = "request"
            /\ apiLast'.method # "GET" )
            => cache' = cache
       /\ (FetchReturned /\ apiLast'.op = "request" /\ apiLast'.method = "GET")
            => /\ cache'[CacheKey("GET", apiLast'.res)] =
                    [has |-> TRUE, data |-> apiLast'.value, timestamp |-> now]
               /\ \A k \in CacheKeys \ {CacheKey("GET", apiLast'.res)} : cache'[k] = cache[k]
       /\ \A r \in Resources : ~cache'[CacheKey("POST", r)].has]_vars

\* a POST was answered successfully while the GET of the same resource is cached
C29_Witness ==
    /\ apiLast.op = "request"
    /\ apiLast.method = "POST"
    /\ apiLast.outcome = "returned"
    /\ cache[CacheKey("GET", apiLast.res)].has
    /\ ~cache[CacheKey("POST", apiLast.res)].has

\* a step in which request() stores the answer of a GET in the cache
CacheInsertion ==
    /\ FetchReturned
    /\ apiLast'.op = "request"
    /\ apiLast'.method = "GET"

\* the entries the cache holds once the answer is stored, before any cleanup
EntriesAfterInsertion ==
    {k \in DOMAIN cache : cache[k].has} \cup {CacheKey("GET", apiLast'.res)}

\* C30: immediately after a cache insertion that leaves more than 50
\* entries the cache holds no expired entry, and an insertion removes no
\* entry that is not expired: eviction is driven by the cache duration only,
\* and the cache may hold more than 50 entries.
C30_SweepIsTtlDriven ==
    [][CacheInsertion
         => /\ Cardinality(EntriesAfterInsertion) > 50
                 => \A k \in DOMAIN cache' :
                        cache'[k].has => ~Expired(cache'[k], now', cacheTimeout')
            /\ \A k \in DOMAIN cache \ {CacheKey("GET", apiLast'.res)} :
                   (cache[k].has /\ ~Expired(cache[k], now, cacheTimeout))
                       => cache'[k] = cache[k]
            /\ cache'[CacheKey("GET", apiLast'.res)].has]_vars

\* an answer has just been stored and the cache holds more than 50 entries
C30_Witness ==
    /\ apiLast.op = "request"
    /\ apiLast.outcome = "returned"
    /\ cache[CacheKey("GET", apiLast.res)].timestamp = now
    /\ CacheSize(cache) > 50

\* an answer has just been stored and the cleanup removed the oldest entries
CleanupRemoved ==
    /\ apiLast.op = "request"
    /\ apiLast.outcome = "returned"
    /\ cache[CacheKey("GET", apiLast.res)].timestamp = now
    /\ apiLast.res = HistoryUrl(MaxLimits)
    /\ ~cache[HistoryKey(1)].has

\* C31: a GET request returns a cached payload only if the age of the entry
\* is strictly less than the cache duration in force; an entry whose age is
\* equal to or greater than it is removed at the lookup and fetched again.
C31_HitOnlyWhenYounger ==
    [][(RequestCalled /\ apiLast'.method = "GET")
         => LET key == CacheKey("GET", apiLast'.res)
                age == now - cache[key].timestamp
            IN  /\ apiLast'.outcome = "cached"
                     => (cache[key].has /\ age < cacheTimeout)
                /\ (cache[key].has /\ age >= cacheTimeout)
                     => /\ apiLast'.outcome = "fetching"
                        /\ ~cache'[key].has
                        /\ apiLast'.net = 1]_vars

\* a step in which request() folds the time of a fetch answered with success
\* into the average
ResponseTimeSampled ==
    /\ successCount' = successCount + 1
    /\ Len(flights') < Len(flights)

\* C32: the smoothed average follows one rule for every sequence of samples:
\* the first sample after construction or reset sets the average to that
\* sample, and every later sample s sets it to 0.8 * previous + 0.2 * s,
\* also when an earlier sample or the current average is 0. The first sample
\* is the one folded when no request has ended since construction or reset; a
\* sample folded after a success is a later one.
C32_SmoothingRule ==
    [][ResponseTimeSampled
         => LET s == Num(now - flights[1].start, 1)
            IN  avgResponseTime' =
                   IF successCount = 0 /\ errorCount = 0 THEN s
                   ELSE IF successCount > 0
                   THEN Add(Mul(avgResponseTime, Num(8, 10)), Mul(s, Num(2, 10)))
                   ELSE avgResponseTime']_vars

\* C33: the smoothed average response time changes only when a request
\* succeeds: a request that fails (timeout, non-success status, failure
\* payload) and a request served from the cache leave it unchanged.
C33_AverageChangesOnSuccessOnly ==
    [][(\/ errorCount' = errorCount + 1
        \/ RequestCalled /\ apiLast'.outcome = "cached")
         => avgResponseTime' = avgResponseTime]_vars

\* reconnect timers that will call connect(): the one whose handle the
\* client holds and those whose handle was overwritten
PendingReconnectTimers ==
    (IF reconnectTimeout = "pending" THEN 1 ELSE 0) + leakedTimers

\* C34: at any time at most one reconnect timer is pending, under every
\* interleaving of abnormal close events, automatic retries, connect() and
\* forceReconnect().
C34_AtMostOneReconnectTimer ==
    PendingReconnectTimers <= 1

\* forceReconnect() has started its connection and a reconnect timer armed
\* before the call is still pending
ForceLeftTimer ==
    /\ last.op \in {"forceReconnect", "forceReconnectResume"}
    /\ TimerPending

\* C35: at any time the feed client owns at most one transport that is
\* connecting or open: connect() during an attempt in progress, or a
\* reconnect timer firing after the caller started a connection, never
\* creates a second live transport.
C35_AtMostOneLiveTransport ==
    Cardinality(LiveTransports) <= 1

\* the current transport has been opened and its close event has not come
CurrentTransportOpen ==
    /\ ws \in Slots
    /\ socks[ws].st \in {"OPEN", "CLOSING"}

\* C36: in every reachable state the connected flag agrees with the current
\* transport: isConnected is true exactly when the current transport has been
\* opened and has not closed.
C36_FlagAgreesWithTransport ==
    isConnected <=> CurrentTransportOpen

\* the current transport is open, a superseded one has just closed, and the
\* client is marked disconnected
SupersededCloseDisconnects ==
    /\ last.op = "handleClose"
    /\ ~isConnected
    /\ ws \in Slots
    /\ socks[ws].st = "OPEN"

\* C37: in every reachable state 0 <= reconnectAttempts <=
\* maxReconnectAttempts, and the counter changes only by +1 when an automatic
\* reconnect is scheduled, or by a reset to 0 on a successful open or in
\* forceReconnect().
C37_CounterBoundedAndStepwise ==
    /\ [](reconnectAttempts \in 0..maxReconnectAttempts)
    /\ [][reconnectAttempts' # reconnectAttempts
            => \/ /\ reconnectAttempts' = reconnectAttempts + 1
                  /\ last'.op = "handleClose"
                  /\ ShouldReconnect(last'.code, last'.clean)
                  /\ reconnectTimeout' = "pending"
                  /\ \E i \in 1..Len(emitted') :
                        /\ emitted'[i].ev = "onReconnecting"
                        /\ emitted'[i].kind = "scheduled"
                        /\ emitted'[i].attempt = reconnectAttempts'
               \/ /\ reconnectAttempts' = 0
                  /\ last'.op \in {"handleOpen", "forceReconnect", "forceReconnectResume"}]_vars

\* the counter is at the maximum and one more abnormal close has been refused
C37_Witness ==
    /\ reconnectAttempts = maxReconnectAttempts
    /\ last.op = "handleClose"
    /\ Emitted("onError", "max_reconnects_reached") = 1
    /\ Emitted("onReconnecting", "scheduled") = 0

\* C38: pingEndpoint (and with it checkHealth, testConnection and
\* runDiagnostics) reports a resource as available only if the server answered
\* that resource successfully during that very call.
C38_AvailableOnlyIfAnswered ==
    \A e \in EndpointSet :
        (diagnostics.st = "waiting" /\ diagnostics.endpoints[e] = "healthy")
            => diagnostics.probes[e] = "answered"

\* a step in which handleMessage emits an event to the data listeners
DataDispatched ==
    /\ last'.op = "handleMessage"
    /\ messagesReceived' # messagesReceived
    /\ emitted' # <<>>
    /\ emitted'[1].ev = "onData"
    /\ "onData" \in channels

\* C39: when an event is emitted, every listener registered for it at that
\* moment is invoked exactly once, in registration order, even if a listener
\* calls off() during the dispatch; a registration removed by off() before
\* the event receives nothing.
C39_DispatchReachesEveryListener ==
    [][DataDispatched
         => /\ Len(invoked') = Len(callbacks)
            /\ \A i \in 1..Len(callbacks) :
                  i <= Len(invoked') => invoked'[i].l = callbacks[i]]_vars

\* an iteration of loop() has run
LoopRan ==
    loops' = loops + 1

\* C40: in the sensor sketch the first reading is always let through, and
\* afterwards a reading is sent only if at least 100 ms have passed since
\* the last send and it differs from the last sent value by at least the
\* threshold 5, so that two consecutively sent values differ by at least 5;
\* an iteration that fails to set the remote address leaves the last sent
\* value and time unchanged.
C40_ThresholdFilteredSends ==
    [][LoopRan
         => /\ lastSentValue = NothingSent => sketchLast'.should
            /\ (sketchLast'.sent /\ lastSentValue # NothingSent)
                 => /\ \E d \in LoopTimes : /\ AddMs(millis, d) = millis'
                                            /\ sinceSend + d >= MIN_SEND_INTERVAL
                    /\ Abs(sketchLast'.ldr - lastSentValue) >= THRESHOLD
            /\ sketchLast'.sent
                 => /\ lastSentValue' = sketchLast'.ldr
                    /\ lastSendTime' = millis'
            /\ ~sketchLast'.sent
                 => /\ lastSentValue' = lastSentValue
                    /\ lastSendTime' = lastSendTime]_vars

\* a reading was sent after the millisecond counter wrapped, another one
\* having been sent before
C40_Witness ==
    /\ sketchLast.op = "loop"
    /\ sketchLast.sent
    /\ sketchLast.prev # NothingSent
    /\ lastSendTime.hi = 0
    /\ lastSendTime.lo < MIN_SEND_INTERVAL
    /\ Abs(sketchLast.ldr - sketchLast.prev) >= THRESHOLD
====
